---- MODULE Spec2Model ----
(***************************************************************************)
(* Predicta backend (src/index.js): the WhatsApp dispatch endpoint         *)
(* POST /twilio/whatsapp, its amount/currency parser, its natural-language *)
(* normalizer and the Postgres tables it appends to.                       *)
(*                                                                         *)
(* Text is modelled character by character: a string is a sequence of      *)
(* one-character strings, a message is the sequence of its whitespace-     *)
(* separated words.  JavaScript numbers are fixed-point integers scaled by *)
(* Scale, so 2.5 is 25 and an integer n is n * Scale.                      *)
(***************************************************************************)
EXTENDS Integers, Sequences, FiniteSets, TLC

VARIABLES
    businesses,    \* table businesses: sequence of rows
    sales,         \* table sales: sequence of rows (append order)
    expenses,      \* table expenses
    stock_events,  \* table stock_events
    EVENTS,        \* the in-memory debug buffer (index.js line 59)
    req,           \* per in-flight request: its locals and its position
    received,      \* number of inbound messages accepted so far
    hist,          \* message bodies in arrival order (sequential runs only)
    parseIn,       \* arguments of a stand-alone parseAmountAndCurrency call
    parseOut,      \* its result
    now,           \* NOW() of the database, in days
    admin,         \* the last GET /admin/summary request and its response
    insightIn,     \* argument of a stand-alone computeInsightsFromSummary call
    insightOut,    \* its result
    normIn,        \* a text handed to normalizeIncomingNL, with its make-up
    normOut,       \* what the normalizer and the tokenizer made of it
    webhook        \* VERIFY_TOKEN, the last GET /webhook request and its answer

vars == <<businesses, sales, expenses, stock_events, EVENTS, req, received,
          hist, parseIn, parseOut, now, admin, insightIn, insightOut, normIn,
          normOut, webhook>>

-----------------------------------------------------------------------------
(* Bounds *)

MaxMsgs == 2
MaxSeqMsgs == 3
MaxLiveMsgs == 2

Scale == 2 * 5

-----------------------------------------------------------------------------
(* Characters and strings *)

LowerLetters == <<"a","b","c","d","e","f","g","h","i","j","k","l","m",
                  "n","o","p","q","r","s","t","u","v","w","x","y","z">>
UpperLetters == <<"A","B","C","D","E","F","G","H","I","J","K","L","M",
                  "N","O","P","Q","R","S","T","U","V","W","X","Y","Z">>
Digits == <<"0","1","2","3","4","5","6","7","8","9">>

IndexIn(c, seq) ==
    IF \E i \in 1..Len(seq) : seq[i] = c
    THEN CHOOSE i \in 1..Len(seq) : seq[i] = c
    ELSE 0

IsDigit(c) == IndexIn(c, Digits) > 0
DigitVal(c) == IndexIn(c, Digits) - 1

LowerChar(c) == IF IndexIn(c, UpperLetters) > 0
                THEN LowerLetters[IndexIn(c, UpperLetters)] ELSE c
UpperChar(c) == IF IndexIn(c, LowerLetters) > 0
                THEN UpperLetters[IndexIn(c, LowerLetters)] ELSE c

toLowerCase(s) == [i \in 1..Len(s) |-> LowerChar(s[i])]
toUpperCase(s) == [i \in 1..Len(s) |-> UpperChar(s[i])]

\* The value of a missing array element or argument (JavaScript undefined).
Undefined == <<"undefined-value">>

\* String(token || "")
StringOr(token) == IF token = Undefined THEN <<>> ELSE token

\* !token : undefined and the empty string are falsy
Falsy(token) == token = Undefined \/ token = <<>>

\* parts[i] of a JavaScript array (0-based index i)
At(parts, i) == IF i + 1 <= Len(parts) THEN parts[i + 1] ELSE Undefined

RECURSIVE RemoveChar(_, _)
RemoveChar(s, c) ==
    IF s = <<>> THEN <<>>
    ELSE IF Head(s) = c THEN RemoveChar(Tail(s), c)
    ELSE <<Head(s)>> \o RemoveChar(Tail(s), c)

RECURSIVE TrimLeft(_)
TrimLeft(s) == IF s # <<>> /\ Head(s) = " " THEN TrimLeft(Tail(s)) ELSE s

RECURSIVE TrimRight(_)
TrimRight(s) ==
    IF s # <<>> /\ s[Len(s)] = " " THEN TrimRight(SubSeq(s, 1, Len(s) - 1)) ELSE s

Trim(s) == TrimRight(TrimLeft(s))

-----------------------------------------------------------------------------
(* JavaScript Number(x) and Number.isFinite                                  *)
(* A number is [k |-> "num", v |-> scaled value], or k = "nan" / "inf".      *)
(* Covered literal forms: optional sign, digits, optional point, at most one *)
(* fractional digit, and Infinity; the inputs drawn below use no exponent,   *)
(* hexadecimal, octal or binary literal.                                     *)

NaN == [k |-> "nan", v |-> 0]
Inf == [k |-> "inf", v |-> 0]
Num(v) == [k |-> "num", v |-> v]

RECURSIVE DigitsValue(_)
DigitsValue(s) ==
    IF s = <<>> THEN 0
    ELSE DigitsValue(SubSeq(s, 1, Len(s) - 1)) * 10 + DigitVal(s[Len(s)])

AllDigits(s) == \A i \in 1..Len(s) : IsDigit(s[i])

InfinityWord == <<"I","n","f","i","n","i","t","y">>

\* an unsigned decimal literal: digits, digits., digits.d, .d
UnsignedDecimal(s) ==
    LET dot == IndexIn(".", s) IN
    IF s = <<>> THEN NaN
    ELSE IF s = InfinityWord THEN Inf
    ELSE IF dot = 0
         THEN IF AllDigits(s) THEN Num(DigitsValue(s) * Scale) ELSE NaN
    ELSE LET ip == SubSeq(s, 1, dot - 1)
             fp == SubSeq(s, dot + 1, Len(s))
         IN IF AllDigits(ip) /\ AllDigits(fp) /\ Len(fp) <= 1 /\ Len(ip) + Len(fp) > 0
            THEN Num(DigitsValue(ip) * Scale + (DigitsValue(fp) * Scale) \div 10)
            ELSE NaN

NumberOf(x) ==
    IF x = Undefined THEN NaN
    ELSE IF x = <<>> THEN Num(0)
    ELSE IF Head(x) = "-"
         THEN LET u == UnsignedDecimal(Tail(x))
              IN IF u.k = "num" THEN Num(0 - u.v) ELSE u
    ELSE IF Head(x) = "+" THEN UnsignedDecimal(Tail(x))
    ELSE UnsignedDecimal(x)

IsFinite(n) == n.k = "num"

IsInteger(v) == v % Scale = 0

-----------------------------------------------------------------------------
(* Currency helpers and the amount parser *)

GBP == <<"G","B","P">>
USD == <<"U","S","D">>
NGN == <<"N","G","N">>

CODE_SET == {GBP, USD, NGN}

HasSymbol(c) == c \in {"£", "$", "₦"}

SYMBOL_TO_CODE(c) == CASE c = "£" -> GBP
                       [] c = "$" -> USD
                       [] c = "₦" -> NGN

\* String(token || "").replace(/,/g, "").trim()
normalizeAmountToken(token) == Trim(RemoveChar(StringOr(token), ","))

ParseError == [error |-> TRUE, amount |-> 0, currency |-> <<>>]
ParseOk(amount, currency) == [error |-> FALSE, amount |-> amount, currency |-> currency]

\* defaultCurrency || "NGN"
DefaultOr(defaultCurrency) == IF Falsy(defaultCurrency) THEN NGN ELSE defaultCurrency

\* variant: the currency-code token is looked at before the leading symbol
parseCodeBeforeSymbol(rawAmountToken, maybeCurrencyToken, defaultCurrency) ==
    LET amtToken == normalizeAmountToken(rawAmountToken)
        maybeCode == toUpperCase(normalizeAmountToken(maybeCurrencyToken))
    IN
    IF amtToken = <<>> THEN ParseError
    ELSE IF maybeCode # <<>> /\ maybeCode \in CODE_SET
         THEN LET amount == NumberOf(amtToken)
              IN IF ~IsFinite(amount) THEN ParseError
                 ELSE ParseOk(amount.v, maybeCode)
    ELSE IF HasSymbol(Head(amtToken))
         THEN LET amount == NumberOf(Tail(amtToken))
              IN IF ~IsFinite(amount) THEN ParseError
                 ELSE ParseOk(amount.v, SYMBOL_TO_CODE(Head(amtToken)))
    ELSE LET amount == NumberOf(amtToken)
         IN IF ~IsFinite(amount) THEN ParseError
            ELSE ParseOk(amount.v, DefaultOr(defaultCurrency))

\* variant: any currency-code token is taken as the currency, supported or not
parseAnyCode(rawAmountToken, maybeCurrencyToken, defaultCurrency) ==
    LET amtToken == normalizeAmountToken(rawAmountToken) IN
    IF amtToken = <<>> THEN ParseError
    ELSE IF HasSymbol(Head(amtToken))
         THEN LET amount == NumberOf(Tail(amtToken))
              IN IF ~IsFinite(amount) THEN ParseError
                 ELSE ParseOk(amount.v, SYMBOL_TO_CODE(Head(amtToken)))
    ELSE LET maybeCode == toUpperCase(normalizeAmountToken(maybeCurrencyToken))
             amount == NumberOf(amtToken)
         IN IF maybeCode # <<>>
            THEN IF ~IsFinite(amount) THEN ParseError
                 ELSE ParseOk(amount.v, maybeCode)
            ELSE IF ~IsFinite(amount) THEN ParseError
                 ELSE ParseOk(amount.v, DefaultOr(defaultCurrency))

parseAmountAndCurrency(rawAmountToken, maybeCurrencyToken, defaultCurrency) ==
    LET amtToken == normalizeAmountToken(rawAmountToken) IN
    IF amtToken = <<>> THEN ParseError
    ELSE IF HasSymbol(Head(amtToken))
         THEN LET amount == NumberOf(Tail(amtToken))
              IN IF ~IsFinite(amount) THEN ParseError
                 ELSE ParseOk(amount.v, SYMBOL_TO_CODE(Head(amtToken)))
    ELSE LET maybeCode == toUpperCase(normalizeAmountToken(maybeCurrencyToken))
             amount == NumberOf(amtToken)
         IN IF maybeCode # <<>> /\ maybeCode \in CODE_SET
            THEN IF ~IsFinite(amount) THEN ParseError
                 ELSE ParseOk(amount.v, maybeCode)
            ELSE IF ~IsFinite(amount) THEN ParseError
                 ELSE ParseOk(amount.v, DefaultOr(defaultCurrency))

-----------------------------------------------------------------------------
(* Natural-language normalizer.  The argument is the list of words of the   *)
(* trimmed, whitespace-collapsed text; the result is the list of words of   *)
(* the canonical command string.                                            *)

Str_summary == <<"s","u","m","m","a","r","y">>
Str_advice == <<"a","d","v","i","c","e">>
Str_help == <<"h","e","l","p">>
Str_sold == <<"s","o","l","d">>
Str_for == <<"f","o","r">>
Str_spent == <<"s","p","e","n","t">>
Str_on == <<"o","n">>
Str_add == <<"a","d","d">>
Str_remove == <<"r","e","m","o","v","e">>
Str_stock == <<"s","t","o","c","k">>
Str_sale == <<"s","a","l","e">>
Str_expense == <<"e","x","p","e","n","s","e">>
Str_stockadd == Str_stock \o Str_add
Str_stockremove == Str_stock \o Str_remove

StartsWith(s, prefix) ==
    Len(s) >= Len(prefix) /\ SubSeq(s, 1, Len(prefix)) = prefix

\* \d+ : one or more ASCII digits
DigitsOnly(w) == w # <<>> /\ AllDigits(w)

\* variant: the words of a phrase stay separated by spaces
RECURSIVE JoinSpaced(_, _)
JoinSpaced(words, sep) ==
    IF words = <<>> THEN <<>>
    ELSE IF Len(words) = 1 THEN words[1]
    ELSE words[1] \o <<" ">> \o JoinSpaced(Tail(words), sep)

RECURSIVE JoinWith(_, _)
JoinWith(words, sep) ==
    IF words = <<>> THEN <<>>
    ELSE IF Len(words) = 1 THEN words[1]
    ELSE words[1] \o <<sep>> \o JoinWith(Tail(words), sep)

\* positions j in lo..Len(words)-1 of the word kw (case-insensitive): the
\* places where "\s+kw\s+" can match with text left on both sides
KeywordAt(words, kw, lo) ==
    {j \in lo..(Len(words) - 1) : toLowerCase(words[j]) = kw}

Min(S) == CHOOSE x \in S : \A y \in S : x <= y

OptWord(parts, i) == IF Falsy(At(parts, i)) THEN <<>> ELSE <<At(parts, i)>>

normalizeIncomingNL(words) ==
    LET n == Len(words)
        first == IF n >= 1 THEN toLowerCase(words[1]) ELSE <<>>
        forAt == KeywordAt(words, Str_for, 4)
        onAt == KeywordAt(words, Str_on, 3)
    IN
    IF StartsWith(first, Str_summary) THEN words
    ELSE IF StartsWith(first, Str_advice) THEN words
    ELSE IF n = 1 /\ first = Str_help THEN <<Str_help>>
    ELSE IF n >= 5 /\ first = Str_sold /\ DigitsOnly(words[2]) /\ forAt # {}
         THEN LET j == Min(forAt)
                  item == JoinWith(SubSeq(words, 3, j - 1), "_")
                  parts == SubSeq(words, j + 1, n)
              IN <<Str_sale, item, words[2], parts[1]>> \o OptWord(parts, 1)
    ELSE IF n >= 4 /\ first = Str_spent /\ onAt # {}
         THEN LET j == Min(onAt)
                  category == JoinWith(SubSeq(words, j + 1, n), "_")
                  parts == SubSeq(words, 2, j - 1)
              IN <<Str_expense, category, parts[1]>> \o OptWord(parts, 1)
    ELSE IF n >= 4 /\ first = Str_add /\ toLowerCase(words[2]) = Str_stock
            /\ DigitsOnly(words[n])
         THEN <<Str_stockadd, JoinWith(SubSeq(words, 3, n - 1), "_"), words[n]>>
    ELSE IF n >= 4 /\ first = Str_remove /\ toLowerCase(words[2]) = Str_stock
            /\ DigitsOnly(words[n])
         THEN <<Str_stockremove, JoinWith(SubSeq(words, 3, n - 1), "_"), words[n]>>
    ELSE words

RECURSIVE ReplaceChar(_, _, _)
ReplaceChar(s, a, b) ==
    IF s = <<>> THEN <<>>
    ELSE <<IF Head(s) = a THEN b ELSE Head(s)>> \o ReplaceChar(Tail(s), a, b)

\* String(token || "").replace(/_/g, " ").trim()
unTokenizeItem(token) == Trim(ReplaceChar(StringOr(token), "_", " "))

-----------------------------------------------------------------------------
(* Owner profiles *)

OwnerFrom == "whatsapp:+447425524117"
OtherFrom == "whatsapp:+2348030000000"
NoFrom == ""

getOwnerProfile(from) ==
    IF from = OwnerFrom
    THEN [businessName |-> "Gabriel Demo Business", defaultCurrency |-> GBP]
    ELSE [businessName |-> "Your Business", defaultCurrency |-> NGN]

-----------------------------------------------------------------------------
(* Storage: the Postgres tables, each a sequence of rows in insertion order. *)
(* created_at DEFAULT NOW() is kept in whole days; within a day it grows     *)
(* with the position in the sequence.                                        *)

BusinessRow(id, name, from, currency) ==
    [id |-> id, business_name |-> name, whatsapp_from |-> from,
     default_currency |-> currency]

SaleRow(businessId, item, quantity, amount, currency) ==
    [business_id |-> businessId, item |-> item, quantity |-> quantity,
     amount |-> amount, currency |-> currency, created_at |-> now]

ExpenseRow(businessId, category, amount, currency) ==
    [business_id |-> businessId, category |-> category, amount |-> amount,
     currency |-> currency, created_at |-> now]

StockRow(businessId, item, quantity) ==
    [business_id |-> businessId, item |-> item, quantity |-> quantity,
     created_at |-> now]

\* SELECT id FROM businesses WHERE whatsapp_from = $1 LIMIT 1
BusinessIdsOf(from) ==
    {businesses[i].id : i \in {k \in 1..Len(businesses) : businesses[k].whatsapp_from = from}}

\* variant: the whatsapp_from column carries no UNIQUE constraint
UniqueFromNotEnforced(from) == TRUE

\* whatsapp_from TEXT UNIQUE NOT NULL
UniqueFromOk(from) == BusinessIdsOf(from) = {}

\* quantity INT NOT NULL: a non-integer parameter is refused by the column type
IntColumnOk(quantity) == IsInteger(quantity)

\* rows of stock_events for one item of one business, oldest first
StockRowsOf(businessId, item) ==
    SelectSeq(stock_events, LAMBDA row : row.business_id = businessId /\ row.item = item)

\* variant: ORDER BY created_at ASC
LatestRowOldest(rows) == rows[1]

\* the row ORDER BY created_at DESC LIMIT 1 returns
LatestRow(rows) == rows[Len(rows)]

getLatestStockQty(businessId, item) ==
    LET rows == StockRowsOf(businessId, item)
    IN IF rows = <<>> THEN 0 ELSE LatestRow(rows).quantity

-----------------------------------------------------------------------------
(* The summary engine: getBusinessSummary and GET /admin/summary.  A query   *)
(* result is a sequence of rows; where ORDER BY leaves rows tied, every order *)
(* of the tied rows is a possible result.                                     *)

Str_today == <<"t","o","d","a","y">>
Str_week == <<"w","e","e","k">>
Str_7d == <<"7","d">>
Str_month == <<"m","o","n","t","h">>
Str_30d == <<"3","0","d">>

\* period || "today"
PeriodOr(period) == IF Falsy(period) THEN Str_today ELSE period

\* variant: only the words week and month are known, not 7d and 30d
periodToIntervalWordsOnly(period) ==
    LET p == toLowerCase(PeriodOr(period))
    IN IF p = Str_week THEN 7
       ELSE IF p = Str_month THEN 30
       ELSE 1

\* the days of the interval text: "1 day", "7 days" or "30 days"
periodToInterval(period) ==
    LET p == toLowerCase(PeriodOr(period))
    IN IF p = Str_week \/ p = Str_7d THEN 7
       ELSE IF p = Str_month \/ p = Str_30d THEN 30
       ELSE 1

\* the interval of GET /admin/summary, from the lower-cased period
AdminInterval(period) ==
    LET first == 1
        second == IF period = Str_week \/ period = Str_7d THEN 7 ELSE first
    IN IF period = Str_month \/ period = Str_30d THEN 30 ELSE second

\* variant: the rows of every business are read
InWindowOfAnyBusiness(rows, businessId, days) ==
    SelectSeq(rows, LAMBDA row : row.created_at >= now - days)

\* WHERE business_id = $1 AND created_at >= NOW() - INTERVAL '<days>'
InWindow(rows, businessId, days) ==
    SelectSeq(rows, LAMBDA row : row.business_id = businessId
                                 /\ row.created_at >= now - days)

RECURSIVE SumAmount(_)
SumAmount(rows) ==
    IF rows = <<>> THEN 0 ELSE Head(rows).amount + SumAmount(Tail(rows))

\* variant: COUNT(*) in place of SUM(quantity)
CountRows(rows) == Len(rows) * Scale

RECURSIVE SumQuantity(_)
SumQuantity(rows) ==
    IF rows = <<>> THEN 0 ELSE Head(rows).quantity + SumQuantity(Tail(rows))

\* the results ORDER BY <key> DESC can return for the keyed rows P, a set of
\* <<key, row>> pairs
RECURSIVE OrdersDesc(_)
OrdersDesc(P) ==
    IF P = {} THEN {<<>>}
    ELSE UNION {{<<p[2]>> \o rest : rest \in OrdersDesc(P \ {p})} :
                  p \in {x \in P : \A y \in P : x[1] >= y[1]}}

\* LIMIT n
Limit(rows, n) == SubSeq(rows, 1, IF Len(rows) < n THEN Len(rows) ELSE n)

\* SELECT currency, SUM(amount), SUM(quantity) ... GROUP BY currency
\* ORDER BY total_amount DESC
SalesTotalsOf(S, businessId, days) ==
    LET rows == InWindow(S, businessId, days)
        groups == {[currency |-> c,
                    total_amount |-> SumAmount(SelectSeq(rows, LAMBDA x : x.currency = c)),
                    total_qty |-> SumQuantity(SelectSeq(rows, LAMBDA x : x.currency = c))] :
                      c \in {rows[i].currency : i \in 1..Len(rows)}}
    IN OrdersDesc({<<g.total_amount, g>> : g \in groups})

\* SELECT currency, SUM(amount) ... GROUP BY currency ORDER BY total_amount DESC
ExpenseTotalsOf(E, businessId, days) ==
    LET rows == InWindow(E, businessId, days)
        groups == {[currency |-> c,
                    total_amount |-> SumAmount(SelectSeq(rows, LAMBDA x : x.currency = c))] :
                      c \in {rows[i].currency : i \in 1..Len(rows)}}
    IN OrdersDesc({<<g.total_amount, g>> : g \in groups})

\* the product groups of GROUP BY item, currency
ProductGroups(S, businessId, days) ==
    LET rows == InWindow(S, businessId, days)
        Of(k) == SelectSeq(rows, LAMBDA x : x.item = k[1] /\ x.currency = k[2])
    IN {[item |-> k[1], currency |-> k[2], revenue |-> SumAmount(Of(k)),
         qty |-> SumQuantity(Of(k))] :
           k \in {<<rows[i].item, rows[i].currency>> : i \in 1..Len(rows)}}

\* SELECT item, currency, SUM(amount) AS revenue, SUM(quantity) AS qty ...
\* GROUP BY item, currency ORDER BY revenue DESC LIMIT n
TopProductsOf(S, businessId, days, n) ==
    LET groups == ProductGroups(S, businessId, days)
    IN {Limit(rows, n) : rows \in OrdersDesc({<<g.revenue, g>> : g \in groups})}

\* the collating order of item texts: blank, digits, letters
Collation == <<" ">> \o Digits \o LowerLetters

RECURSIVE TextBefore(_, _)
TextBefore(a, b) ==
    IF b = <<>> THEN FALSE
    ELSE IF a = <<>> THEN TRUE
    ELSE IF Head(a) = Head(b) THEN TextBefore(Tail(a), Tail(b))
    ELSE IndexIn(Head(a), Collation) < IndexIn(Head(b), Collation)

\* the results ORDER BY item can return for the rows R
RECURSIVE OrdersByItem(_)
OrdersByItem(R) ==
    IF R = {} THEN {<<>>}
    ELSE UNION {{<<x>> \o rest : rest \in OrdersByItem(R \ {x})} :
                  x \in {x \in R : \A y \in R : ~TextBefore(y.item, x.item)}}

\* variant: the snapshot is taken over the window of the period
StockSnapshotInWindow(K, businessId, days) ==
    LET rows == InWindow(K, businessId, days)
        Of(item) == SelectSeq(rows, LAMBDA x : x.item = item)
    IN OrdersByItem({[item |-> LatestRow(Of(it)).item,
                      quantity |-> LatestRow(Of(it)).quantity,
                      created_at |-> LatestRow(Of(it)).created_at] :
                        it \in {rows[i].item : i \in 1..Len(rows)}})

\* SELECT DISTINCT ON (item) item, quantity, created_at FROM stock_events
\* WHERE business_id = $1 ORDER BY item, created_at DESC
\* (days is not used: the query has no window)
StockSnapshotOf(K, businessId, days) ==
    LET rows == SelectSeq(K, LAMBDA x : x.business_id = businessId)
        Of(item) == SelectSeq(rows, LAMBDA x : x.item = item)
    IN OrdersByItem({[item |-> LatestRow(Of(it)).item,
                      quantity |-> LatestRow(Of(it)).quantity,
                      created_at |-> LatestRow(Of(it)).created_at] :
                        it \in {rows[i].item : i \in 1..Len(rows)}})

\* map[c] || 0 for a map filled from the rows of a totals query
TotalOrZero(rows, c) ==
    LET at == {i \in 1..Len(rows) : rows[i].currency = c}
    IN IF at = {} THEN 0 ELSE rows[CHOOSE i \in at : \A j \in at : j <= i].total_amount

\* the keys of new Set([...Object.keys(salesMap), ...Object.keys(expMap)]),
\* in insertion order
CurrencyKeys(salesTotals, expenseTotals) ==
    LET salesKeys == [i \in 1..Len(salesTotals) |-> salesTotals[i].currency]
        seen == {salesKeys[i] : i \in 1..Len(salesKeys)}
        expKeys == [i \in 1..Len(expenseTotals) |-> expenseTotals[i].currency]
    IN salesKeys \o SelectSeq(expKeys, LAMBDA c : c \notin seen)

\* variant: only the currencies with sales get a net entry
NetOfSalesOnly(salesTotals, expenseTotals) ==
    [i \in 1..Len(salesTotals) |->
        [currency |-> salesTotals[i].currency,
         net |-> salesTotals[i].total_amount
                   - TotalOrZero(expenseTotals, salesTotals[i].currency)]]

\* netByCurrency as Object.entries lists it
NetByCurrency(salesTotals, expenseTotals) ==
    LET keys == CurrencyKeys(salesTotals, expenseTotals)
    IN [i \in 1..Len(keys) |->
          [currency |-> keys[i],
           net |-> TotalOrZero(salesTotals, keys[i])
                     - TotalOrZero(expenseTotals, keys[i])]]

\* businessInfo.rows[0] || null
Null == [id |-> 0, business_name |-> "", whatsapp_from |-> NoFrom,
         default_currency |-> <<>>]

BusinessInfoOf(B, businessId) ==
    LET at == {i \in 1..Len(B) : B[i].id = businessId}
    IN IF at = {} THEN Null ELSE B[CHOOSE i \in at : TRUE]

\* the summaries the queries can produce over the tables B, S, E, K, with
\* top products cut at n rows
SummariesOver(B, S, E, K, businessId, days, n) ==
    {[intervalSql |-> days,
      business |-> BusinessInfoOf(B, businessId),
      totals |-> [salesTotals |-> st, expenseTotals |-> et,
                  netByCurrency |-> NetByCurrency(st, et)],
      insights |-> [topProductsByRevenue |-> tp, stockSnapshot |-> ss]] :
        st \in SalesTotalsOf(S, businessId, days),
        et \in ExpenseTotalsOf(E, businessId, days),
        tp \in TopProductsOf(S, businessId, days, n),
        ss \in StockSnapshotOf(K, businessId, days)}

ChatTopProducts == 3
AdminTopProducts == 5

getBusinessSummary(businessId, period) ==
    SummariesOver(businesses, sales, expenses, stock_events, businessId,
                  periodToInterval(period), ChatTopProducts)

NoSummary ==
    [intervalSql |-> 0, business |-> Null,
     totals |-> [salesTotals |-> <<>>, expenseTotals |-> <<>>,
                 netByCurrency |-> <<>>],
     insights |-> [topProductsByRevenue |-> <<>>, stockSnapshot |-> <<>>]]

adaptInternalSummaryToAdminShape(internalSummary, period) ==
    [period |-> toLowerCase(PeriodOr(period)),
     business |-> internalSummary.business,
     totals |-> [sales_by_currency |-> internalSummary.totals.salesTotals,
                 expenses_by_currency |-> internalSummary.totals.expenseTotals,
                 net_by_currency |-> internalSummary.totals.netByCurrency],
     insights |-> [top_products_by_revenue |->
                       internalSummary.insights.topProductsByRevenue,
                   stock_snapshot |->
                       [i \in 1..Len(internalSummary.insights.stockSnapshot) |->
                          [item |-> internalSummary.insights.stockSnapshot[i].item,
                           quantity |-> internalSummary.insights.stockSnapshot[i].quantity,
                           last_updated |->
                               internalSummary.insights.stockSnapshot[i].created_at]]]]

-----------------------------------------------------------------------------
(* Insights: computeInsightsFromSummary.  A tip is named by its rule and the *)
(* item or currency its text quotes.                                         *)

Tip(kind, about) == [kind |-> kind, about |-> about]

\* Number(n) when finite, else 0
safeNum(n) == IF n \in Int THEN n ELSE 0

RECURSIVE SumTotalAmount(_)
SumTotalAmount(rows) ==
    IF rows = <<>> THEN 0
    ELSE safeNum(Head(rows).total_amount) + SumTotalAmount(Tail(rows))

RECURSIVE SumRevenue(_)
SumRevenue(rows) ==
    IF rows = <<>> THEN 0 ELSE safeNum(Head(rows).revenue) + SumRevenue(Tail(rows))

When(cond, tip) == IF cond THEN <<tip>> ELSE <<>>

\* variant: the share has to exceed 0.7
ShareAbove70(top1, sumTop) == top1 * 10 > 7 * sumTop

\* top1 / sumTop >= 0.7, for sumTop > 0
ShareAtLeast70(top1, sumTop) == top1 * 10 >= 7 * sumTop

\* variant: only a quantity above 200 counts as high stock
HighStockAbove == 200 * Scale + 1

HighStock == 200 * Scale

AllTips(summary) ==
    LET salesArr == summary.totals.sales_by_currency
        expArr == summary.totals.expenses_by_currency
        topProducts == summary.insights.top_products_by_revenue
        stockSnap == summary.insights.stock_snapshot
        netBy == summary.totals.net_by_currency
        totalSalesAll == SumTotalAmount(salesArr)
        totalExpAll == SumTotalAmount(expArr)
        productTips ==
            IF Len(topProducts) >= 2
            THEN LET top1 == safeNum(topProducts[1].revenue)
                     sumTop == SumRevenue(topProducts)
                 IN When(sumTop > 0 /\ ShareAtLeast70(top1, sumTop),
                         Tip("concentration", topProducts[1].item))
            ELSE IF Len(topProducts) = 1
                 THEN <<Tip("single_product", topProducts[1].item)>>
                 ELSE <<>>
        stockTips ==
            IF Len(stockSnap) > 0
            THEN LET s0 == stockSnap[1]
                     qty == safeNum(s0.quantity)
                 IN When(qty = 0, Tip("stockout", s0.item))
                      \o When(qty >= HighStock, Tip("high_stock", s0.item))
            ELSE <<Tip("no_stock", <<>>)>>
        negative == SelectSeq(netBy, LAMBDA e : safeNum(e.net) < 0)
        netTips == [i \in 1..Len(negative) |->
                      Tip("negative_net", negative[i].currency)]
    IN When(totalSalesAll <= 0, Tip("no_sales", <<>>))
         \o When(totalExpAll <= 0, Tip("no_expenses", <<>>))
         \o productTips \o stockTips \o netTips

MaxTips == 6

\* variant: every tip is returned
computeInsightsUncut(summary) == AllTips(summary)

computeInsightsFromSummary(summary) == Limit(AllTips(summary), MaxTips)

-----------------------------------------------------------------------------
(* The request handler app.post("/twilio/whatsapp")                          *)
(* Replies are named by kind; the text of each is in index.js.               *)

ReqIds == {1, 2}

IdleReq ==
    [pc |-> "idle", from |-> NoFrom, body |-> <<>>, businessId |-> 0,
     cmd |-> "", item |-> <<>>, qty |-> 0, amount |-> 0, currency |-> <<>>,
     delta |-> 0, current |-> 0, replies |-> <<>>, calls |-> <<>>,
     summary |-> NoSummary, tips |-> <<>>]

Reply(q, kind) == [q EXCEPT !.pc = "done", !.replies = Append(@, kind)]

Call(q, op) == [q EXCEPT !.calls = Append(@, op)]

\* variant: the catch block logs the error and sends nothing
CatchReplySilent(q) == [q EXCEPT !.pc = "done"]

\* variant: the catch block invokes the failed operation once more
CatchRetry(q) == Call(q, q.calls[Len(q.calls)])

\* the catch block: always answer with the temporary-error message
CatchReply(q) == Reply(q, "temp_error")

Max(a, b) == IF a >= b THEN a ELSE b

AddNext(current, delta) == current + delta

\* variant: Math.max(0, ...) left out
RemoveNextNoFloor(current, delta) == current - delta

RemoveNext(current, delta) == Max(0, current - delta)

SaleEvent(q) ==
    [type |-> "sale", businessId |-> q.businessId, name |-> q.item,
     quantity |-> q.qty, amount |-> q.amount, currency |-> q.currency]

ExpenseEvent(q) ==
    [type |-> "expense", businessId |-> q.businessId, name |-> q.item,
     quantity |-> 0, amount |-> q.amount, currency |-> q.currency]

\* variant: the presence of the amount token is not checked
SaleArgsOkNoAmountCheck(parts) ==
    LET qty == NumberOf(At(parts, 2))
    IN ~(Falsy(At(parts, 1)) \/ ~IsFinite(qty) \/ qty.v <= 0)

\* the argument check of each write command (TRUE = passes)
SaleArgsOk(parts) ==
    LET qty == NumberOf(At(parts, 2))
    IN ~(Falsy(At(parts, 1)) \/ ~IsFinite(qty) \/ qty.v <= 0 \/ Falsy(At(parts, 3)))

ExpenseArgsOk(parts) == ~(Falsy(At(parts, 1)) \/ Falsy(At(parts, 2)))

StockArgsOk(parts) ==
    LET qty == NumberOf(At(parts, 2))
    IN ~(Falsy(At(parts, 1)) \/ ~IsFinite(qty) \/ qty.v < 0)

StockDeltaArgsOk(parts) ==
    LET delta == NumberOf(At(parts, 2))
    IN ~(Falsy(At(parts, 1)) \/ ~IsFinite(delta) \/ delta.v <= 0)

\* variant: the item keeps the letter case it was typed in
ItemOfAsTyped(parts) == unTokenizeItem(At(parts, 1))

ItemOf(parts) == toLowerCase(unTokenizeItem(At(parts, 1)))

\* variant: the parse result is used without looking at parsed.error
SaleBranchNoParseCheck(q, parts, defaultCurrency) ==
    IF ~SaleArgsOk(parts) THEN Reply(q, "usage_sale")
    ELSE LET parsed == parseAmountAndCurrency(At(parts, 3), At(parts, 4), defaultCurrency)
         IN Call([q EXCEPT !.pc = "insertSale", !.item = ItemOf(parts),
                           !.qty = NumberOf(At(parts, 2)).v,
                           !.amount = parsed.amount,
                           !.currency = parsed.currency], "insertSale")

SaleBranch(q, parts, defaultCurrency) ==
    IF ~SaleArgsOk(parts) THEN Reply(q, "usage_sale")
    ELSE LET parsed == parseAmountAndCurrency(At(parts, 3), At(parts, 4), defaultCurrency)
         IN IF parsed.error THEN Reply(q, "sale_not_recorded")
            ELSE Call([q EXCEPT !.pc = "insertSale", !.item = ItemOf(parts),
                                !.qty = NumberOf(At(parts, 2)).v,
                                !.amount = parsed.amount,
                                !.currency = parsed.currency], "insertSale")

ExpenseBranch(q, parts, defaultCurrency) ==
    IF ~ExpenseArgsOk(parts) THEN Reply(q, "usage_expense")
    ELSE LET parsed == parseAmountAndCurrency(At(parts, 2), At(parts, 3), defaultCurrency)
         IN IF parsed.error THEN Reply(q, "expense_not_recorded")
            ELSE Call([q EXCEPT !.pc = "insertExpense", !.item = ItemOf(parts),
                                !.amount = parsed.amount,
                                !.currency = parsed.currency], "insertExpense")

StockBranch(q, parts) ==
    IF ~StockArgsOk(parts) THEN Reply(q, "usage_stock")
    ELSE Call([q EXCEPT !.pc = "insertStock", !.item = ItemOf(parts),
                        !.qty = NumberOf(At(parts, 2)).v], "insertStockEvent")

StockAddBranch(q, parts) ==
    IF ~StockDeltaArgsOk(parts) THEN Reply(q, "usage_stockadd")
    ELSE Call([q EXCEPT !.pc = "readStock", !.item = ItemOf(parts),
                        !.delta = NumberOf(At(parts, 2)).v], "getLatestStockQty")

StockRemoveBranch(q, parts) ==
    IF ~StockDeltaArgsOk(parts) THEN Reply(q, "usage_stockremove")
    ELSE Call([q EXCEPT !.pc = "readStock", !.item = ItemOf(parts),
                        !.delta = NumberOf(At(parts, 2)).v], "getLatestStockQty")

\* variant: a command is recognised by the way the first token starts
CommandOfPrefix(word) ==
    CASE word = Str_help -> "help"
      [] StartsWith(word, Str_summary) -> "summary"
      [] StartsWith(word, Str_advice) -> "advice"
      [] StartsWith(word, Str_sale) -> "sale"
      [] StartsWith(word, Str_expense) -> "expense"
      [] word = Str_stock -> "stock"
      [] word = Str_stockadd -> "stockadd"
      [] word = Str_stockremove -> "stockremove"
      [] OTHER -> "unknown"

\* the if / else-if chain over cmd: the branch a first token selects
CommandOf(word) ==
    CASE word = Str_help -> "help"
      [] word = Str_summary -> "summary"
      [] word = Str_advice -> "advice"
      [] word = Str_sale -> "sale"
      [] word = Str_expense -> "expense"
      [] word = Str_stock -> "stock"
      [] word = Str_stockadd -> "stockadd"
      [] word = Str_stockremove -> "stockremove"
      [] OTHER -> "unknown"

\* the code that runs once businessId is known, up to the next awaited
\* storage call or the reply
Dispatch(q0, businessId) ==
    LET q == [q0 EXCEPT !.businessId = businessId]
        parts == normalizeIncomingNL(q.body)
        word == toLowerCase(StringOr(At(parts, 0)))
        defaultCurrency == getOwnerProfile(q.from).defaultCurrency
        cmd == CommandOf(word)
        qc == [q EXCEPT !.cmd = cmd]
    IN CASE cmd = "help" -> Reply(qc, "help")
         [] cmd \in {"summary", "advice"} ->
                Call([qc EXCEPT !.pc = "summary"], "getBusinessSummary")
         [] cmd = "sale" -> SaleBranch(qc, parts, defaultCurrency)
         [] cmd = "expense" -> ExpenseBranch(qc, parts, defaultCurrency)
         [] cmd = "stock" -> StockBranch(qc, parts)
         [] cmd = "stockadd" -> StockAddBranch(qc, parts)
         [] cmd = "stockremove" -> StockRemoveBranch(qc, parts)
         [] OTHER -> Reply(qc, "unknown")

\* EVENTS.push(event) happens in the same synchronous stretch, just before
\* the insert is awaited
PushEvents(q) ==
    CASE q.pc = "insertSale" -> Append(EVENTS, SaleEvent(q))
      [] q.pc = "insertExpense" -> Append(EVENTS, ExpenseEvent(q))
      [] OTHER -> EVENTS

Tables == <<businesses, sales, expenses, stock_events>>
Aux == <<parseIn, parseOut, now, admin, insightIn, insightOut, normIn, normOut,
         webhook>>

\* lines 634-647: a message arrives; empty text or sender is answered at once,
\* otherwise the business lookup is issued
Accept(r, from, body) ==
    /\ req[r].pc \in {"idle", "done"}
    /\ received' = received + 1
    /\ LET q == [IdleReq EXCEPT !.from = from, !.body = body]
       IN req' = [req EXCEPT ![r] =
                    IF from = NoFrom \/ body = <<>>
                    THEN Reply(q, "empty")
                    ELSE Call([q EXCEPT !.pc = "selectBiz"], "selectBusiness")]
    /\ UNCHANGED <<Tables, EVENTS, Aux>>

\* getOrCreateBusinessId, the SELECT
SelectBiz(r) ==
    /\ req[r].pc = "selectBiz"
    /\ \E ok \in BOOLEAN :
         LET q == req[r]
             ids == BusinessIdsOf(q.from)
             next == IF ~ok THEN CatchReply(q)
                     ELSE IF ids # {} THEN Dispatch(q, CHOOSE id \in ids : TRUE)
                     ELSE Call([q EXCEPT !.pc = "insertBiz"], "insertBusiness")
         IN /\ req' = [req EXCEPT ![r] = next]
            /\ EVENTS' = PushEvents(next)
    /\ UNCHANGED <<Tables, received, hist, Aux>>

\* getOrCreateBusinessId, the INSERT ... RETURNING id
InsertBiz(r) ==
    /\ req[r].pc = "insertBiz"
    /\ \E ok \in BOOLEAN :
         LET q == req[r]
             profile == getOwnerProfile(q.from)
             id == Len(businesses) + 1
         IN IF ok /\ UniqueFromOk(q.from)
            THEN LET next == Dispatch(q, id)
                 IN /\ businesses' = Append(businesses,
                            BusinessRow(id, profile.businessName, q.from,
                                        DefaultOr(profile.defaultCurrency)))
                    /\ req' = [req EXCEPT ![r] = next]
                    /\ EVENTS' = PushEvents(next)
            ELSE /\ req' = [req EXCEPT ![r] = CatchReply(q)]
                 /\ UNCHANGED <<businesses, EVENTS>>
    /\ UNCHANGED <<sales, expenses, stock_events, received, hist, Aux>>

\* the summary and advice branches: getBusinessSummary, then the reply text
\* with the tips of computeInsightsFromSummary.  The queries of one summary
\* read one state of the tables.
Summary(r) ==
    /\ req[r].pc = "summary"
    /\ \E ok \in BOOLEAN :
         LET q == req[r]
             period == toLowerCase(PeriodOr(At(normalizeIncomingNL(q.body), 1)))
         IN IF ok
            THEN \E internalSummary \in getBusinessSummary(q.businessId, period) :
                   LET adminShapeSummary ==
                           adaptInternalSummaryToAdminShape(internalSummary, period)
                   IN req' = [req EXCEPT ![r] =
                                Reply([q EXCEPT !.summary = internalSummary,
                                                !.tips = computeInsightsFromSummary(
                                                             adminShapeSummary)],
                                      q.cmd)]
            ELSE req' = [req EXCEPT ![r] = CatchReply(q)]
    /\ UNCHANGED <<Tables, EVENTS, received, hist, Aux>>

NoAdmin ==
    [key |-> TRUE, business_id |-> Undefined, period |-> Undefined, status |-> 0,
     summary |-> adaptInternalSummaryToAdminShape(NoSummary, Undefined),
     window |-> 0]

\* GET /admin/summary?business_id=..&period=.. behind requireApiKey; key says
\* whether the x-api-key header matches
AdminSummary(key, business_id, periodParam) ==
    /\ \E ok \in BOOLEAN :
         LET request == [NoAdmin EXCEPT !.key = key, !.business_id = business_id,
                                        !.period = periodParam]
             period == toLowerCase(PeriodOr(periodParam))
             businessId == NumberOf(IF Falsy(business_id) THEN <<"0">> ELSE business_id)
             intervalSql == AdminInterval(period)
         IN IF ~key THEN admin' = [request EXCEPT !.status = 401]
            ELSE IF ~IsFinite(businessId) \/ businessId.v = 0
            THEN admin' = [request EXCEPT !.status = 400]
            ELSE IF ~ok \/ ~IntColumnOk(businessId.v)
            THEN admin' = [request EXCEPT !.status = 500]
            ELSE \E internal \in SummariesOver(businesses, sales, expenses,
                                               stock_events, businessId.v \div Scale,
                                               intervalSql, AdminTopProducts) :
                   admin' = [request EXCEPT
                               !.status = 200,
                               !.window = intervalSql,
                               !.summary = adaptInternalSummaryToAdminShape(internal,
                                                                            period)]
    /\ UNCHANGED <<Tables, EVENTS, req, received, hist, parseIn, parseOut, now,
                   insightIn, insightOut, normIn, normOut, webhook>>

\* days pass: NOW() of later queries is that much later
Tick(days) ==
    /\ now' = now + days
    /\ UNCHANGED <<Tables, EVENTS, req, received, hist, parseIn, parseOut, admin,
                   insightIn, insightOut, normIn, normOut, webhook>>

InsertSale(r) ==
    /\ req[r].pc = "insertSale"
    /\ \E ok \in BOOLEAN :
         LET q == req[r]
         IN IF ok /\ IntColumnOk(q.qty)
            THEN /\ sales' = Append(sales, SaleRow(q.businessId, q.item, q.qty,
                                                   q.amount, q.currency))
                 /\ req' = [req EXCEPT ![r] = Reply(q, "sale_recorded")]
            ELSE /\ req' = [req EXCEPT ![r] = CatchReply(q)]
                 /\ UNCHANGED sales
    /\ UNCHANGED <<businesses, expenses, stock_events, EVENTS, received, hist, Aux>>

\* variant: the failure is raised after the row has been written
InsertExpenseLateFailure(r) ==
    /\ req[r].pc = "insertExpense"
    /\ \E ok \in BOOLEAN :
         LET q == req[r]
         IN /\ expenses' = Append(expenses, ExpenseRow(q.businessId, q.item,
                                                       q.amount, q.currency))
            /\ req' = [req EXCEPT ![r] = IF ok THEN Reply(q, "expense_recorded")
                                         ELSE CatchReply(q)]
    /\ UNCHANGED <<businesses, sales, stock_events, EVENTS, received, hist, Aux>>

InsertExpense(r) ==
    /\ req[r].pc = "insertExpense"
    /\ \E ok \in BOOLEAN :
         LET q == req[r]
         IN IF ok
            THEN /\ expenses' = Append(expenses, ExpenseRow(q.businessId, q.item,
                                                            q.amount, q.currency))
                 /\ req' = [req EXCEPT ![r] = Reply(q, "expense_recorded")]
            ELSE /\ req' = [req EXCEPT ![r] = CatchReply(q)]
                 /\ UNCHANGED expenses
    /\ UNCHANGED <<businesses, sales, stock_events, EVENTS, received, hist, Aux>>

\* stockadd / stockremove: await getLatestStockQty, then compute next
ReadStock(r) ==
    /\ req[r].pc = "readStock"
    /\ \E ok \in BOOLEAN :
         LET q == req[r]
             current == getLatestStockQty(q.businessId, q.item)
             next == IF q.cmd = "stockadd" THEN AddNext(current, q.delta)
                     ELSE RemoveNext(current, q.delta)
         IN req' = [req EXCEPT ![r] =
                      IF ok
                      THEN Call([q EXCEPT !.pc = "insertStock", !.current = current,
                                          !.qty = next], "insertStockEvent")
                      ELSE CatchReply(q)]
    /\ UNCHANGED <<Tables, EVENTS, received, hist, Aux>>

StockReplyKind(cmd) ==
    CASE cmd = "stock" -> "stock_set"
      [] cmd = "stockadd" -> "stock_added"
      [] cmd = "stockremove" -> "stock_removed"

\* variant: the append re-reads the level and applies the delta atomically
InsertStockAtomic(r) ==
    /\ req[r].pc = "insertStock"
    /\ \E ok \in BOOLEAN :
         LET q == req[r]
             fresh == getLatestStockQty(q.businessId, q.item)
             qty == CASE q.cmd = "stockadd" -> fresh + q.delta
                      [] q.cmd = "stockremove" -> Max(0, fresh - q.delta)
                      [] OTHER -> q.qty
         IN IF ok /\ IntColumnOk(qty)
            THEN /\ stock_events' = Append(stock_events,
                                           StockRow(q.businessId, q.item, qty))
                 /\ req' = [req EXCEPT ![r] = Reply(q, StockReplyKind(q.cmd))]
            ELSE /\ req' = [req EXCEPT ![r] = CatchReply(q)]
                 /\ UNCHANGED stock_events
    /\ UNCHANGED <<businesses, sales, expenses, EVENTS, received, hist, Aux>>

\* variant: the level of the item is kept in one row that is overwritten
InsertStockUpsert(r) ==
    /\ req[r].pc = "insertStock"
    /\ \E ok \in BOOLEAN :
         LET q == req[r]
             own == {i \in 1..Len(stock_events) :
                       /\ stock_events[i].business_id = q.businessId
                       /\ stock_events[i].item = q.item}
         IN IF ok /\ IntColumnOk(q.qty)
            THEN /\ stock_events' =
                      IF own = {}
                      THEN Append(stock_events, StockRow(q.businessId, q.item, q.qty))
                      ELSE [i \in 1..Len(stock_events) |->
                              IF i \in own
                              THEN StockRow(q.businessId, q.item, q.qty)
                              ELSE stock_events[i]]
                 /\ req' = [req EXCEPT ![r] = Reply(q, StockReplyKind(q.cmd))]
            ELSE /\ req' = [req EXCEPT ![r] = CatchReply(q)]
                 /\ UNCHANGED stock_events
    /\ UNCHANGED <<businesses, sales, expenses, EVENTS, received, hist, Aux>>

InsertStock(r) ==
    /\ req[r].pc = "insertStock"
    /\ \E ok \in BOOLEAN :
         LET q == req[r]
         IN IF ok /\ IntColumnOk(q.qty)
            THEN /\ stock_events' = Append(stock_events,
                                           StockRow(q.businessId, q.item, q.qty))
                 /\ req' = [req EXCEPT ![r] = Reply(q, StockReplyKind(q.cmd))]
            ELSE /\ req' = [req EXCEPT ![r] = CatchReply(q)]
                 /\ UNCHANGED stock_events
    /\ UNCHANGED <<businesses, sales, expenses, EVENTS, received, hist, Aux>>

Step(r) ==
    \/ SelectBiz(r)
    \/ InsertBiz(r)
    \/ Summary(r)
    \/ InsertSale(r)
    \/ InsertExpense(r)
    \/ ReadStock(r)
    \/ InsertStock(r)

-----------------------------------------------------------------------------
(* Inbound message texts offered to the handler *)

\* sale rice 3 ₦45
Msg_sale_ok ==
    <<<<"s","a","l","e">>, <<"r","i","c","e">>, <<"3">>, <<"₦","4","5">>>>

\* sale Rice 3 4,500 gbp
Msg_sale_code ==
    <<<<"s","a","l","e">>, <<"R","i","c","e">>, <<"3">>, <<"4",",","5","0","0">>, <<"g","b","p">>>>

\* sale rice 3 45 eur
Msg_sale_eur ==
    <<<<"s","a","l","e">>, <<"r","i","c","e">>, <<"3">>, <<"4","5">>, <<"e","u","r">>>>

\* sale bin 5 45
Msg_sale_tie ==
    <<<<"s","a","l","e">>, <<"b","i","n">>, <<"5">>, <<"4","5">>>>

\* sale rice 2.5 45
Msg_sale_fraction ==
    <<<<"s","a","l","e">>, <<"r","i","c","e">>, <<"2",".","5">>, <<"4","5">>>>

\* sale rice 0 45
Msg_sale_zero ==
    <<<<"s","a","l","e">>, <<"r","i","c","e">>, <<"0">>, <<"4","5">>>>

\* sale rice x 45
Msg_sale_nan ==
    <<<<"s","a","l","e">>, <<"r","i","c","e">>, <<"x">>, <<"4","5">>>>

\* sale rice 3
Msg_sale_noamount ==
    <<<<"s","a","l","e">>, <<"r","i","c","e">>, <<"3">>>>

\* sale
Msg_sale_noitem ==
    <<<<"s","a","l","e">>>>

\* sale rice 3 abc
Msg_sale_badamount ==
    <<<<"s","a","l","e">>, <<"r","i","c","e">>, <<"3">>, <<"a","b","c">>>>

\* sale rice 3 -5
Msg_sale_negative ==
    <<<<"s","a","l","e">>, <<"r","i","c","e">>, <<"3">>, <<"-","5">>>>

\* Sold 3 bin for 40 gbp
Msg_sold ==
    <<<<"S","o","l","d">>, <<"3">>, <<"b","i","n">>, <<"f","o","r">>, <<"4","0">>, <<"g","b","p">>>>

\* expense fuel £30
Msg_expense_ok ==
    <<<<"e","x","p","e","n","s","e">>, <<"f","u","e","l">>, <<"£","3","0">>>>

\* expense fuel
Msg_expense_noamount ==
    <<<<"e","x","p","e","n","s","e">>, <<"f","u","e","l">>>>

\* expense
Msg_expense_nocategory ==
    <<<<"e","x","p","e","n","s","e">>>>

\* expense fuel abc
Msg_expense_badamount ==
    <<<<"e","x","p","e","n","s","e">>, <<"f","u","e","l">>, <<"a","b","c">>>>

\* expense fuel -5
Msg_expense_negative ==
    <<<<"e","x","p","e","n","s","e">>, <<"f","u","e","l">>, <<"-","5">>>>

\* expense fuel £
Msg_expense_symbol ==
    <<<<"e","x","p","e","n","s","e">>, <<"f","u","e","l">>, <<"£">>>>

\* Spent $30 on fuel
Msg_spent ==
    <<<<"S","p","e","n","t">>, <<"$","3","0">>, <<"o","n">>, <<"f","u","e","l">>>>

\* stock rice 20
Msg_stock_20 ==
    <<<<"s","t","o","c","k">>, <<"r","i","c","e">>, <<"2","0">>>>

\* stock rice 0
Msg_stock_0 ==
    <<<<"s","t","o","c","k">>, <<"r","i","c","e">>, <<"0">>>>

\* stock rice -1
Msg_stock_negative ==
    <<<<"s","t","o","c","k">>, <<"r","i","c","e">>, <<"-","1">>>>

\* stock rice
Msg_stock_noqty ==
    <<<<"s","t","o","c","k">>, <<"r","i","c","e">>>>

\* stock
Msg_stock_noitem ==
    <<<<"s","t","o","c","k">>>>

\* stock rice 2.5
Msg_stock_fraction ==
    <<<<"s","t","o","c","k">>, <<"r","i","c","e">>, <<"2",".","5">>>>

\* stock bin 7
Msg_stock_bin ==
    <<<<"s","t","o","c","k">>, <<"b","i","n">>, <<"7">>>>

\* add stock rice 10
Msg_add_10 ==
    <<<<"a","d","d">>, <<"s","t","o","c","k">>, <<"r","i","c","e">>, <<"1","0">>>>

\* Add stock RICE 5
Msg_add_5 ==
    <<<<"A","d","d">>, <<"s","t","o","c","k">>, <<"R","I","C","E">>, <<"5">>>>

\* stockadd rice 2.5
Msg_stockadd_fraction ==
    <<<<"s","t","o","c","k","a","d","d">>, <<"r","i","c","e">>, <<"2",".","5">>>>

\* stockadd rice 0
Msg_stockadd_zero ==
    <<<<"s","t","o","c","k","a","d","d">>, <<"r","i","c","e">>, <<"0">>>>

\* stockadd rice -3
Msg_stockadd_negative ==
    <<<<"s","t","o","c","k","a","d","d">>, <<"r","i","c","e">>, <<"-","3">>>>

\* stockadd
Msg_stockadd_noitem ==
    <<<<"s","t","o","c","k","a","d","d">>>>

\* remove stock rice 5
Msg_remove_5 ==
    <<<<"r","e","m","o","v","e">>, <<"s","t","o","c","k">>, <<"r","i","c","e">>, <<"5">>>>

\* remove stock rice 30
Msg_remove_30 ==
    <<<<"r","e","m","o","v","e">>, <<"s","t","o","c","k">>, <<"r","i","c","e">>, <<"3","0">>>>

\* stockremove rice 2.5
Msg_stockremove_fraction ==
    <<<<"s","t","o","c","k","r","e","m","o","v","e">>, <<"r","i","c","e">>, <<"2",".","5">>>>

\* stockremove rice 0
Msg_stockremove_zero ==
    <<<<"s","t","o","c","k","r","e","m","o","v","e">>, <<"r","i","c","e">>, <<"0">>>>

\* stockremove rice
Msg_stockremove_noqty ==
    <<<<"s","t","o","c","k","r","e","m","o","v","e">>, <<"r","i","c","e">>>>

\* help
Msg_help ==
    <<<<"h","e","l","p">>>>

\* summary
Msg_summary ==
    <<<<"s","u","m","m","a","r","y">>>>

\* summary MONTH
Msg_summary_month ==
    <<<<"s","u","m","m","a","r","y">>, <<"M","O","N","T","H">>>>

\* summary 7d
Msg_summary_7d ==
    <<<<"s","u","m","m","a","r","y">>, <<"7","d">>>>

\* advice 30D
Msg_advice_30d ==
    <<<<"a","d","v","i","c","e">>, <<"3","0","D">>>>

\* summary yesterday
Msg_summary_other ==
    <<<<"s","u","m","m","a","r","y">>, <<"y","e","s","t","e","r","d","a","y">>>>

\* sale rice 1 -9
Msg_sale_loss ==
    <<<<"s","a","l","e">>, <<"r","i","c","e">>, <<"1">>, <<"-","9">>>>

\* expense fuel £1
Msg_expense_gbp1 ==
    <<<<"e","x","p","e","n","s","e">>, <<"f","u","e","l">>, <<"£","1">>>>

\* expense fuel $1
Msg_expense_usd1 ==
    <<<<"e","x","p","e","n","s","e">>, <<"f","u","e","l">>, <<"$","1">>>>

\* advice week
Msg_advice ==
    <<<<"a","d","v","i","c","e">>, <<"w","e","e","k">>>>

\* hello
Msg_unknown ==
    <<<<"h","e","l","l","o">>>>

\* a body that is empty after trim()
Msg_empty == <<>>

-----------------------------------------------------------------------------
(* Specification of the endpoint under concurrent requests *)

StockTexts ==
    {Msg_stock_20, Msg_stock_0, Msg_add_10, Msg_add_5, Msg_remove_5, Msg_remove_30}

OtherTexts ==
    {Msg_sale_ok, Msg_sale_fraction, Msg_sale_badamount, Msg_sale_negative,
     Msg_expense_ok, Msg_expense_negative, Msg_stock_negative, Msg_stock_fraction,
     Msg_stockadd_fraction, Msg_help, Msg_summary, Msg_unknown, Msg_empty}

Inbound ==
    ({OwnerFrom, OtherFrom} \X StockTexts)
        \cup ({OtherFrom} \X OtherTexts)
        \cup {<<OwnerFrom, Msg_sold>>, <<NoFrom, Msg_help>>}

\* no text normalized yet, no webhook verification asked yet
NoText == [form |-> "none", words |-> <<>>]
NotNormalized == [parts |-> <<>>, stored |-> <<>>]
NoWebhook ==
    [VERIFY_TOKEN |-> Undefined, mode |-> Undefined, token |-> Undefined,
     challenge |-> Undefined, status |-> 0, body |-> Undefined]

NoInsightIn == adaptInternalSummaryToAdminShape(NoSummary, Undefined)
NotComputed == <<Tip("pending", <<>>)>>

NoParse == [amount |-> <<>>, currency |-> <<>>, default |-> <<>>]
NotParsed == [error |-> FALSE, amount |-> 0 - 1, currency |-> <<"?">>]

Init ==
    /\ businesses = <<>>
    /\ sales = <<>>
    /\ expenses = <<>>
    /\ stock_events = <<>>
    /\ EVENTS = <<>>
    /\ req = [r \in ReqIds |-> IdleReq]
    /\ received = 0
    /\ hist = <<>>
    /\ parseIn = NoParse
    /\ parseOut = NotParsed
    /\ now = 0
    /\ admin = NoAdmin
    /\ insightIn = NoInsightIn
    /\ insightOut = NotComputed
    /\ normIn = NoText
    /\ normOut = NotNormalized
    /\ webhook = NoWebhook

Receive(r) ==
    /\ received < MaxMsgs
    /\ \E m \in Inbound : Accept(r, m[1], m[2])
    /\ UNCHANGED hist

Next ==
    \E r \in ReqIds :
        \/ Receive(r)
        \/ SelectBiz(r)
        \/ InsertBiz(r)
        \/ Summary(r)
        \/ InsertSale(r)
        \/ InsertExpense(r)
        \/ ReadStock(r)
        \/ InsertStock(r)

Spec == Init /\ [][Next]_vars

-----------------------------------------------------------------------------
(* Specification of the endpoint fed one message at a time, over every       *)
(* argument shape of the write commands                                      *)

MaxArgMsgs == 2

ArgTexts ==
    {Msg_sale_ok, Msg_sale_code, Msg_sale_eur, Msg_sale_fraction, Msg_sale_zero,
     Msg_sale_nan,
     Msg_sale_noamount, Msg_sale_noitem, Msg_sale_badamount, Msg_sale_negative,
     Msg_sold,
     Msg_expense_ok, Msg_expense_noamount, Msg_expense_nocategory,
     Msg_expense_badamount, Msg_expense_negative, Msg_expense_symbol, Msg_spent,
     Msg_stock_20, Msg_stock_0, Msg_stock_negative, Msg_stock_noqty,
     Msg_stock_noitem, Msg_stock_fraction, Msg_stock_bin,
     Msg_add_10, Msg_add_5, Msg_stockadd_fraction, Msg_stockadd_zero,
     Msg_stockadd_negative, Msg_stockadd_noitem,
     Msg_remove_5, Msg_remove_30, Msg_stockremove_fraction, Msg_stockremove_zero,
     Msg_stockremove_noqty,
     Msg_help, Msg_summary, Msg_advice, Msg_unknown, Msg_empty}

ArgInbound ==
    ({OtherFrom} \X ArgTexts)
        \cup ({OwnerFrom} \X {Msg_sale_zero, Msg_sale_badamount, Msg_expense_ok,
                              Msg_stock_0, Msg_remove_5})

ReceiveArgs ==
    /\ received < MaxArgMsgs
    /\ \E m \in ArgInbound : Accept(1, m[1], m[2])
    /\ UNCHANGED hist

ArgsNext ==
    \/ ReceiveArgs
    \/ SelectBiz(1)
    \/ InsertBiz(1)
    \/ Summary(1)
    \/ InsertSale(1)
    \/ InsertExpense(1)
    \/ ReadStock(1)
    \/ InsertStock(1)

ArgsSpec == Init /\ [][ArgsNext]_vars

-----------------------------------------------------------------------------
(* Vocabulary of the properties *)

\* the words the dispatcher splits a request's text into
PartsOf(q) == normalizeIncomingNL(q.body)

\* the request got past the business lookup, so its command was dispatched
Dispatched(q) == q.businessId # 0

\* the step completes request r (sends its reply)
Completes(r) == req[r].pc # "done" /\ req'[r].pc = "done"

Has(calls, ops) == \E i \in 1..Len(calls) : calls[i] \in ops

WriteOps == {"insertSale", "insertExpense", "insertStockEvent"}
LogOps == WriteOps \cup {"getLatestStockQty"}

TokenMissing(parts, i) == Len(parts) < i + 1

UsageKind(cmd) ==
    CASE cmd = "sale" -> "usage_sale"
      [] cmd = "expense" -> "usage_expense"
      [] cmd = "stock" -> "usage_stock"
      [] cmd = "stockadd" -> "usage_stockadd"
      [] cmd = "stockremove" -> "usage_stockremove"
      [] OTHER -> "none"

\* quantity token of a sale / stock command: not a number, or below `least`
QuantityBad(parts, least) ==
    LET n == NumberOf(At(parts, 2)) IN n.k # "num" \/ n.v < least

ValidationFails(cmd, parts) ==
    CASE cmd = "sale" ->
            TokenMissing(parts, 1) \/ TokenMissing(parts, 3) \/ QuantityBad(parts, 1)
      [] cmd = "expense" -> TokenMissing(parts, 1) \/ TokenMissing(parts, 2)
      [] cmd = "stock" -> TokenMissing(parts, 1) \/ QuantityBad(parts, 0)
      [] cmd \in {"stockadd", "stockremove"} ->
            TokenMissing(parts, 1) \/ QuantityBad(parts, 1)
      [] OTHER -> FALSE

-----------------------------------------------------------------------------
\* C2: when the argument validation of sale, expense, stock, stockadd or
\* stockremove fails (item/category missing, amount token missing, quantity
\* not a number or out of range), the reply is that command's usage message,
\* no storage write is issued and no sale, expense or stock event is appended.
C2_UsageAndNoWrite ==
    [][\A r \in ReqIds :
         LET q == req'[r]
         IN (Completes(r) /\ Dispatched(q) /\ ValidationFails(q.cmd, PartsOf(q)))
            => /\ q.replies = <<UsageKind(q.cmd)>>
               /\ ~Has(q.calls, LogOps)
               /\ UNCHANGED <<sales, expenses, stock_events, EVENTS>>]_vars

\* a stockadd with quantity 0 was answered with its usage message and the
\* stock log kept its one earlier row
C2_Witness ==
    /\ req[1].pc = "done"
    /\ Dispatched(req[1])
    /\ req[1].cmd = "stockadd"
    /\ ValidationFails(req[1].cmd, PartsOf(req[1]))
    /\ req[1].replies = <<"usage_stockadd">>
    /\ Len(stock_events) = 1

-----------------------------------------------------------------------------
\* C3: sale, stockadd and stockremove reach a storage call only when the
\* quantity token parses as a positive integer (2.5, 0 and negatives are
\* rejected before any storage call); stock (set) is accepted for every
\* integer quantity >= 0.
C3_OnlyPositiveIntegersAccepted ==
    \A r \in ReqIds :
        LET q == req[r]
            parts == PartsOf(q)
            n == NumberOf(At(parts, 2))
        IN /\ (Dispatched(q) /\ q.cmd \in {"sale", "stockadd", "stockremove"}
                 /\ Has(q.calls, LogOps))
              => (n.k = "num" /\ IsInteger(n.v) /\ n.v > 0)
           /\ (Dispatched(q) /\ q.cmd = "stock" /\ ~TokenMissing(parts, 1)
                 /\ n.k = "num" /\ IsInteger(n.v) /\ n.v >= 0)
              => Has(q.calls, {"insertStockEvent"})

-----------------------------------------------------------------------------
\* C9: for sale and expense, when the amount token is present but
\* parseAmountAndCurrency returns an error, the reply is "Sale not recorded" /
\* "Expense not recorded" and neither the tables nor the in-memory event
\* buffer change.
AmountTokenAt(cmd) == IF cmd = "sale" THEN 3 ELSE 2

AmountParseFails(q) ==
    LET parts == PartsOf(q)
        i == AmountTokenAt(q.cmd)
    IN /\ q.cmd \in {"sale", "expense"}
       /\ ~ValidationFails(q.cmd, parts)
       /\ parseAmountAndCurrency(At(parts, i), At(parts, i + 1),
                                 getOwnerProfile(q.from).defaultCurrency).error

RejectionKind(cmd) == IF cmd = "sale" THEN "sale_not_recorded" ELSE "expense_not_recorded"

\* C9: a sale / expense whose amount does not parse is answered with the
\* command's rejection and appends nothing to the tables or to EVENTS.
C9_ParseErrorRejected ==
    [][\A r \in ReqIds :
         LET q == req'[r]
         IN (Completes(r) /\ Dispatched(q) /\ AmountParseFails(q))
            => /\ q.replies = <<RejectionKind(q.cmd)>>
               /\ ~Has(q.calls, LogOps)
               /\ UNCHANGED <<sales, expenses, stock_events, EVENTS>>]_vars

C9_Witness ==
    /\ req[1].pc = "done"
    /\ Dispatched(req[1])
    /\ AmountParseFails(req[1])
    /\ req[1].cmd = "expense"
    /\ req[1].replies = <<"expense_not_recorded">>
    /\ Len(EVENTS) = 1

-----------------------------------------------------------------------------
\* C5: after any sequence and interleaving of stock, stockadd and stockremove
\* commands every row of stock_events has quantity >= 0; stockremove floors
\* the level it appends at 0.
C5_StockNeverNegative ==
    \A i \in 1..Len(stock_events) : stock_events[i].quantity >= 0

\* a stockremove of more than the current positive level was recorded as 0
C5_Witness ==
    \E r \in ReqIds :
        /\ req[r].pc = "done"
        /\ req[r].cmd = "stockremove"
        /\ req[r].replies = <<"stock_removed">>
        /\ req[r].current > 0
        /\ req[r].delta > req[r].current
        /\ getLatestStockQty(req[r].businessId, req[r].item) = 0

-----------------------------------------------------------------------------
\* C6: the read-then-append of stockadd / stockremove is not atomic.  The level
\* a request appends is computed from the level it read, whatever was appended
\* since (no re-read, no compare-and-swap); two concurrent stockadd requests on
\* one item can both read the same level and both reply success, leaving a
\* level that holds only one of the two deltas.
ExpectedFromRead(q) ==
    IF q.cmd = "stockadd" THEN q.current + q.delta
    ELSE IF q.current - q.delta > 0 THEN q.current - q.delta ELSE 0

\* C6 (universal part): a successful stockadd / stockremove appends exactly the
\* level computed from the level the request read earlier.
C6_AppendUsesStaleRead ==
    [][\A r \in ReqIds :
         LET q == req'[r]
         IN (Completes(r) /\ q.cmd \in {"stockadd", "stockremove"}
               /\ q.replies \in {<<"stock_added">>, <<"stock_removed">>})
            => /\ stock_events' = Append(stock_events,
                     StockRow(q.businessId, q.item, ExpectedFromRead(q)))
               /\ q.current = req[r].current]_vars

\* C6 (the interleaving): two stockadd requests on one item read the same level,
\* both replied success, and the final level holds one delta only.
C6_LostUpdate ==
    \E r \in ReqIds, o \in ReqIds :
        /\ r # o
        /\ req[r].pc = "done" /\ req[o].pc = "done"
        /\ req[r].cmd = "stockadd" /\ req[o].cmd = "stockadd"
        /\ req[r].replies = <<"stock_added">> /\ req[o].replies = <<"stock_added">>
        /\ req[r].businessId = req[o].businessId
        /\ req[r].item = req[o].item
        /\ req[r].current = req[o].current
        /\ req[r].delta # req[o].delta
        /\ Len(StockRowsOf(req[r].businessId, req[r].item)) = 2
        /\ getLatestStockQty(req[r].businessId, req[r].item)
              = req[o].current + req[o].delta
        /\ getLatestStockQty(req[r].businessId, req[r].item)
              # req[r].current + req[r].delta + req[o].delta

-----------------------------------------------------------------------------
\* C10: every recorded sale has an integer quantity > 0 and an amount >= 0,
\* every recorded expense an amount >= 0, every stock event an integer
\* quantity >= 0; no negative amount or non-integer quantity is handed to the
\* storage layer.
C10_RecordedValuesInBounds ==
    /\ \A i \in 1..Len(sales) :
          /\ IsInteger(sales[i].quantity) /\ sales[i].quantity > 0
          /\ sales[i].amount >= 0
    /\ \A i \in 1..Len(expenses) : expenses[i].amount >= 0
    /\ \A i \in 1..Len(stock_events) :
          IsInteger(stock_events[i].quantity) /\ stock_events[i].quantity >= 0
    /\ \A r \in ReqIds :
          req[r].pc \in {"insertSale", "insertExpense", "insertStock"}
             => (req[r].amount >= 0 /\ IsInteger(req[r].qty))

-----------------------------------------------------------------------------
\* C11: the currency of every recorded sale and expense (table row and
\* in-memory event alike) and the default currency of every business is one of
\* GBP, USD, NGN.
C11_CurrenciesSupported ==
    /\ \A i \in 1..Len(sales) : sales[i].currency \in {GBP, USD, NGN}
    /\ \A i \in 1..Len(expenses) : expenses[i].currency \in {GBP, USD, NGN}
    /\ \A i \in 1..Len(EVENTS) : EVENTS[i].currency \in {GBP, USD, NGN}
    /\ \A i \in 1..Len(businesses) :
          businesses[i].default_currency \in {GBP, USD, NGN}

\* "sale rice 3 45 eur" was recorded, in the sender's default currency
C11_Witness ==
    /\ req[1].pc = "done"
    /\ req[1].body = Msg_sale_eur
    /\ req[1].replies = <<"sale_recorded">>
    /\ sales # <<>>
    /\ sales[Len(sales)].currency = NGN
    /\ businesses # <<>>

-----------------------------------------------------------------------------
\* C12: the sales, expenses and stock logs are append-only: a step never
\* changes or removes an event already in a log, and each log after a step is
\* the log before it plus at most one new event.
Extends(after, before) ==
    /\ Len(after) \in {Len(before), Len(before) + 1}
    /\ SubSeq(after, 1, Len(before)) = before

C12_LogsAppendOnly ==
    [][/\ Extends(sales', sales)
       /\ Extends(expenses', expenses)
       /\ Extends(stock_events', stock_events)
       /\ Extends(EVENTS', EVENTS)]_vars

\* a second stock command on the same item left the first event in place
C12_Witness ==
    /\ Len(stock_events) = 2
    /\ stock_events[1].item = stock_events[2].item
    /\ stock_events[1].business_id = stock_events[2].business_id
    /\ stock_events[1].quantity # stock_events[2].quantity

-----------------------------------------------------------------------------
\* C13: under every interleaving there is at most one business per channel
\* identifier; a business row is only ever added, and only by a non-empty
\* message from a channel identifier that has no business yet; every request
\* that got past the lookup works on the one business id of its sender.
C13_OneBusinessPerChannel ==
    /\ [](/\ \A i, j \in 1..Len(businesses) :
               businesses[i].whatsapp_from = businesses[j].whatsapp_from => i = j
          /\ \A r \in ReqIds :
               Dispatched(req[r]) => BusinessIdsOf(req[r].from) = {req[r].businessId})
    /\ [][/\ Extends(businesses', businesses)
          /\ businesses' # businesses =>
                LET row == businesses'[Len(businesses')]
                IN /\ BusinessIdsOf(row.whatsapp_from) = {}
                   /\ \E r \in ReqIds :
                         /\ req[r].pc = "insertBiz"
                         /\ req[r].from = row.whatsapp_from
                         /\ req[r].from # NoFrom
                         /\ req[r].body # <<>>
                         /\ req'[r].businessId = row.id]_vars

\* a later message of a sender was dispatched against the business that the
\* sender's first message created
C13_Witness ==
    /\ Len(businesses) = 1
    /\ req[1].from = req[2].from
    /\ Dispatched(req[1]) /\ Dispatched(req[2])
    /\ req[1].businessId = req[2].businessId
    /\ Has(req[1].calls, {"insertBusiness"})
    /\ ~Has(req[2].calls, {"insertBusiness"})

-----------------------------------------------------------------------------
(* Specification of stand-alone calls of parseAmountAndCurrency *)

AmountTokens ==
    {Undefined,
     <<"₦","4","5","0","0","0">>,
     <<"4","5">>,
     <<"a","b","c">>,
     <<"£">>,
     <<"£","4",",","5","0","0">>,
     <<"4",",","5","0","0">>,
     <<"$","3","0">>,
     <<"-","5">>,
     <<"£","-","5">>,
     <<"2",".","5">>,
     <<"₦",",">>,
     <<"£","a","b","c">>,
     <<"I","n","f","i","n","i","t","y">>,
     <<",">>}

CurrencyTokens ==
    {Undefined,
     <<"G","B","P">>,
     <<"g","b","p">>,
     <<"u","s","d">>,
     <<"N","g","n">>,
     <<"g",",","b","p">>,
     <<"e","u","r">>}

DefaultCurrencies == {Undefined, GBP, USD, NGN}

ParseInit ==
    /\ businesses = <<>>
    /\ sales = <<>>
    /\ expenses = <<>>
    /\ stock_events = <<>>
    /\ EVENTS = <<>>
    /\ req = [r \in ReqIds |-> IdleReq]
    /\ received = 0
    /\ hist = <<>>
    /\ parseIn \in [amount : AmountTokens, currency : CurrencyTokens,
                    default : DefaultCurrencies]
    /\ parseOut = NotParsed
    /\ now = 0
    /\ admin = NoAdmin
    /\ insightIn = NoInsightIn
    /\ insightOut = NotComputed
    /\ normIn = NoText
    /\ normOut = NotNormalized
    /\ webhook = NoWebhook

ParseCall ==
    /\ parseOut = NotParsed
    /\ parseOut' = parseAmountAndCurrency(parseIn.amount, parseIn.currency,
                                          parseIn.default)
    /\ UNCHANGED <<Tables, EVENTS, req, received, hist, parseIn, now, admin,
                   insightIn, insightOut, normIn, normOut, webhook>>

ParseNext == ParseCall

ParseSpec == ParseInit /\ [][ParseNext]_vars

Parsed == parseOut # NotParsed

\* the amount token without its thousands separators
Stripped == RemoveChar(StringOr(parseIn.amount), ",")

LeadingSymbol == Stripped # <<>> /\ HasSymbol(Head(Stripped))

\* the text that has to be the number
Remainder == IF LeadingSymbol THEN Tail(Stripped) ELSE Stripped

IsNumberText(s) == s # <<>> /\ NumberOf(s).k = "num"

-----------------------------------------------------------------------------
\* C7: parseAmountAndCurrency fails with the invalid-amount error whenever the
\* numeric remainder of the amount token is empty or does not parse to a finite
\* number, in all three branches; a token that is only a currency symbol is an
\* error.
C7_InvalidAmountRejected ==
    (Parsed /\ ~IsNumberText(Remainder)) => parseOut.error

-----------------------------------------------------------------------------
\* C8: the currency is picked by strict precedence: a leading symbol of the
\* amount token, else a second token that uppercases to GBP / USD / NGN, else
\* the business default, else NGN; thousands separators are stripped before
\* the amount is parsed in every branch.
PickedCurrency(code) ==
    IF LeadingSymbol THEN SYMBOL_TO_CODE(Head(Stripped))
    ELSE IF code \in CODE_SET THEN code
    ELSE IF Falsy(parseIn.default) THEN NGN
    ELSE parseIn.default

ParsesAs(code) ==
    (Parsed /\ IsNumberText(Remainder))
        => /\ ~parseOut.error
           /\ parseOut.amount = NumberOf(Remainder).v
           /\ parseOut.currency = PickedCurrency(code)

\* C8 as stated: the second token counts when it uppercases to a code
C8_CurrencyPrecedence == ParsesAs(toUpperCase(StringOr(parseIn.currency)))

\* C8 amended: the second token counts when, with its commas removed, it
\* uppercases to a code; symbol first, then code token, then default, then NGN
C8_CurrencyPrecedenceAmended ==
    ParsesAs(toUpperCase(RemoveChar(StringOr(parseIn.currency), ",")))

\* a symbol-prefixed amount with thousands separators, followed by a code
\* token of another currency, came out in the symbol's currency
C8_Witness ==
    /\ Parsed
    /\ parseIn.amount = <<"£","4",",","5","0","0">>
    /\ parseIn.currency = <<"u","s","d">>
    /\ parseOut = ParseOk(4500 * Scale, GBP)

-----------------------------------------------------------------------------
(* Specification of race-free stock commands: one request at a time *)

SeqInbound ==
    ({OtherFrom} \X {Msg_stock_20, Msg_stock_0, Msg_stock_bin, Msg_add_10,
                     Msg_add_5, Msg_remove_5, Msg_remove_30, Msg_stockadd_zero})
        \cup ({OwnerFrom} \X {Msg_stock_20, Msg_add_10})

ReceiveSeq ==
    /\ received < MaxSeqMsgs
    /\ \E m \in SeqInbound :
          /\ Accept(1, m[1], m[2])
          /\ hist' = Append(hist, m)

SeqNext ==
    \/ ReceiveSeq
    \/ SelectBiz(1)
    \/ InsertBiz(1)
    \/ ReadStock(1)
    \/ InsertStock(1)

SeqSpec == Init /\ [][SeqNext]_vars

StockSuccess(q) ==
    /\ q.pc = "done"
    /\ q.cmd \in {"stock", "stockadd", "stockremove"}
    /\ q.replies = <<StockReplyKind(q.cmd)>>

Rice == <<"r","i","c","e">>

Scenario ==
    <<<<OtherFrom, Msg_stock_20>>, <<OtherFrom, Msg_add_10>>, <<OtherFrom, Msg_remove_5>>>>

-----------------------------------------------------------------------------
\* C4: in a race-free sequence of stock / stockadd / stockremove commands the
\* level of the item after each successful command is q after "stock q",
\* prior + d after "stockadd d" and max(0, prior - d) after "stockremove d",
\* the prior level of an item without stock event being 0; "stock rice 20",
\* "add stock rice 10", "remove stock rice 5" leaves rice at 25.
C4_SequentialStockLevels ==
    LET q == req[1]
        rows == StockRowsOf(q.businessId, q.item)
        prior == IF Len(rows) > 1 THEN rows[Len(rows) - 1].quantity ELSE 0
        n == NumberOf(At(PartsOf(q), 2)).v
        level == getLatestStockQty(q.businessId, q.item)
    IN /\ StockSuccess(q) =>
            /\ rows # <<>>
            /\ level = rows[Len(rows)].quantity
            /\ q.cmd = "stock" => level = n
            /\ q.cmd = "stockadd" => level = prior + n
            /\ q.cmd = "stockremove" =>
                  level = (IF prior - n > 0 THEN prior - n ELSE 0)
       /\ (hist = Scenario /\ StockSuccess(q) /\ Len(stock_events) = 3) =>
            getLatestStockQty(q.businessId, Rice) = 25 * Scale

C4_Witness ==
    /\ hist = Scenario
    /\ StockSuccess(req[1])
    /\ Len(stock_events) = 3
    /\ getLatestStockQty(req[1].businessId, Rice) = 25 * Scale

-----------------------------------------------------------------------------
(* Vocabulary of the summary properties *)

\* the step answers chat request 1 with a summary or an advice
ChatSummarised ==
    /\ Completes(1)
    /\ req'[1].cmd \in {"summary", "advice"}
    /\ req'[1].replies = <<req'[1].cmd>>

\* chat request 1 has been answered with a summary or an advice
ChatSummaryDone ==
    /\ req[1].pc = "done"
    /\ req[1].cmd \in {"summary", "advice"}
    /\ req[1].replies = <<req[1].cmd>>

\* the step answers an admin summary request with status 200
AdminAnswered == admin' # admin /\ admin'.status = 200

AdminBusinessId(a) == NumberOf(a.business_id).v \div Scale

\* the events of business b in log that are at most that many days old
Windowed(log, b, days) ==
    SelectSeq(log, LAMBDA e : e.business_id = b /\ now - e.created_at <= days)

CurrenciesOf(log) == {log[i].currency : i \in 1..Len(log)}

TotalIn(log, c) == SumAmount(SelectSeq(log, LAMBDA e : e.currency = c))

-----------------------------------------------------------------------------
(* Specification of the net map: sales and expenses of one sender in two     *)
(* currencies, days passing, summaries by chat and by the admin endpoint     *)

MaxNetMsgs == 3
MaxNetDay == 2

NetInbound == {OtherFrom} \X {Msg_sold, Msg_expense_ok, Msg_spent, Msg_summary}

ReceiveNet ==
    /\ received < MaxNetMsgs
    /\ \E m \in NetInbound : Accept(1, m[1], m[2])
    /\ UNCHANGED hist

NetAdmin == \E period \in {Undefined, Str_week} : AdminSummary(TRUE, <<"1">>, period)

NetTick ==
    /\ now + 2 <= MaxNetDay
    /\ Tick(2)

NetNext ==
    \/ ReceiveNet
    \/ SelectBiz(1)
    \/ InsertBiz(1)
    \/ Summary(1)
    \/ InsertSale(1)
    \/ InsertExpense(1)
    \/ NetAdmin
    \/ NetTick

NetSpec == Init /\ [][NetNext]_vars

\* net is the map currency -> sales total - expenses total (a missing side
\* counting 0) over the currencies that have either total, for the events of
\* business b of the last `days` days
NetMapRight(net, b, days) ==
    LET sold == Windowed(sales, b, days)
        spent == Windowed(expenses, b, days)
    IN /\ \A i, j \in 1..Len(net) : net[i].currency = net[j].currency => i = j
       /\ {net[i].currency : i \in 1..Len(net)} = CurrenciesOf(sold) \cup CurrenciesOf(spent)
       /\ \A i \in 1..Len(net) :
             net[i].net = TotalIn(sold, net[i].currency) - TotalIn(spent, net[i].currency)

\* C14: in every summary, chat or admin, a currency is a key of the net map
\* exactly when it has a sales total or an expense total in the window, and
\* its net is the sales total minus the expenses total, a missing side
\* counting as 0.
C14_NetMap ==
    [][/\ ChatSummarised =>
             NetMapRight(req'[1].summary.totals.netByCurrency, req[1].businessId,
                         req'[1].summary.intervalSql)
       /\ AdminAnswered =>
             NetMapRight(admin'.summary.totals.net_by_currency,
                         AdminBusinessId(admin'), admin'.window)]_vars

\* sales of GBP 40 and expenses of GBP 30 gave net GBP 10, by chat and by the
\* admin endpoint
C14_Witness ==
    /\ ChatSummaryDone
    /\ req[1].summary.totals.netByCurrency = <<[currency |-> GBP, net |-> 10 * Scale]>>
    /\ admin.status = 200
    /\ admin.summary.totals.net_by_currency = req[1].summary.totals.netByCurrency

-----------------------------------------------------------------------------
(* Specification of the product ranking: sales of two products with the     *)
(* same revenue and different quantities, summaries by chat and by admin     *)

MaxTopMsgs == 3

TopInbound == {OtherFrom} \X {Msg_sale_ok, Msg_sale_tie, Msg_sold, Msg_summary}

ReceiveTop ==
    /\ received < MaxTopMsgs
    /\ \E m \in TopInbound : Accept(1, m[1], m[2])
    /\ UNCHANGED hist

TopAdmin == AdminSummary(TRUE, <<"1">>, Undefined)

TopNext ==
    \/ ReceiveTop
    \/ SelectBiz(1)
    \/ InsertBiz(1)
    \/ Summary(1)
    \/ InsertSale(1)
    \/ TopAdmin

TopSpec == Init /\ [][TopNext]_vars

\* the products of business b sold in the window, with revenue and quantity
ProductsSold(b, days) ==
    LET sold == Windowed(sales, b, days)
        Of(item, c) == SelectSeq(sold, LAMBDA e : e.item = item /\ e.currency = c)
    IN {[item |-> sold[i].item, currency |-> sold[i].currency,
         revenue |-> SumAmount(Of(sold[i].item, sold[i].currency)),
         qty |-> SumQuantity(Of(sold[i].item, sold[i].currency))] :
           i \in 1..Len(sold)}

\* p ranks above q: more revenue, or the same revenue and more quantity
RanksAbove(p, q) ==
    p.revenue > q.revenue \/ (p.revenue = q.revenue /\ p.qty > q.qty)

\* top is the first n of the products of b ranked by revenue, then quantity
RankedTop(top, b, days, n) ==
    LET products == ProductsSold(b, days)
        listed == {top[i] : i \in 1..Len(top)}
    IN /\ listed \subseteq products
       /\ Cardinality(listed) = Len(top)
       /\ Len(top) = (IF Cardinality(products) < n THEN Cardinality(products) ELSE n)
       /\ \A i, j \in 1..Len(top) : i < j => ~RanksAbove(top[j], top[i])
       /\ \A p \in products \ listed : \A i \in 1..Len(top) : ~RanksAbove(p, top[i])

\* C15: the top-products list is the products ranked by revenue, descending,
\* ties in revenue broken by quantity, descending, cut to 3 entries by chat
\* and to 5 by the admin endpoint.
C15_TopProductsRanked ==
    [][/\ ChatSummarised =>
             RankedTop(req'[1].summary.insights.topProductsByRevenue,
                       req[1].businessId, req'[1].summary.intervalSql, 3)
       /\ AdminAnswered =>
             RankedTop(admin'.summary.insights.top_products_by_revenue,
                       AdminBusinessId(admin'), admin'.window, 5)]_vars

-----------------------------------------------------------------------------
(* Specification of the stock snapshot: stock commands of one sender, days   *)
(* passing, summaries over each window                                       *)

MaxSnapMsgs == 3
MaxSnapDay == 31

SnapInbound ==
    {OtherFrom} \X {Msg_stock_20, Msg_stock_bin, Msg_summary, Msg_advice,
                    Msg_summary_month}

ReceiveSnap ==
    /\ received < MaxSnapMsgs
    /\ \E m \in SnapInbound : Accept(1, m[1], m[2])
    /\ UNCHANGED hist

SnapTick ==
    \E days \in {8, 31} :
        /\ now + days <= MaxSnapDay
        /\ Tick(days)

SnapNext ==
    \/ ReceiveSnap
    \/ SelectBiz(1)
    \/ InsertBiz(1)
    \/ Summary(1)
    \/ InsertStock(1)
    \/ SnapTick

SnapSpec == Init /\ [][SnapNext]_vars

\* the stock events of business b, of whatever age
StockEventsOf(b) == SelectSeq(stock_events, LAMBDA e : e.business_id = b)

\* snapshot has one entry per item with a stock event of b, holding the
\* quantity of the item's most recent event
SnapshotRight(snapshot, b) ==
    LET events == StockEventsOf(b)
        LastOf(item) == CHOOSE i \in 1..Len(events) :
                           /\ events[i].item = item
                           /\ \A j \in 1..Len(events) : events[j].item = item => j <= i
    IN /\ \A i, j \in 1..Len(snapshot) : snapshot[i].item = snapshot[j].item => i = j
       /\ {snapshot[i].item : i \in 1..Len(snapshot)}
             = {events[i].item : i \in 1..Len(events)}
       /\ \A i \in 1..Len(snapshot) :
             snapshot[i].quantity = events[LastOf(snapshot[i].item)].quantity

\* C16: the stock snapshot of a summary has exactly one entry per item that
\* has a stock event of the business, with the quantity of the item's most
\* recent stock event, whatever the period keyword: stock events older than
\* the window are reflected all the same.
C16_SnapshotIgnoresWindow ==
    [][ChatSummarised =>
          SnapshotRight(req'[1].summary.insights.stockSnapshot, req[1].businessId)]_vars

\* a summary asked after rice was set, days passed and bin was set lists both
\* items, rice at the level of its event, which is older than the window
C16_Witness ==
    /\ ChatSummaryDone
    /\ Len(req[1].summary.insights.stockSnapshot) = 2
    /\ LET bin == req[1].summary.insights.stockSnapshot[1]
           rice == req[1].summary.insights.stockSnapshot[2]
       IN /\ rice.item = Rice
          /\ rice.quantity = 20 * Scale
          /\ bin.created_at - rice.created_at > req[1].summary.intervalSql

-----------------------------------------------------------------------------
(* Specification of two businesses: sales, expenses and stock of two         *)
(* senders, summaries asked by one of them                                   *)

MaxIsoMsgs == 3

IsoInbound ==
    ({OtherFrom} \X {Msg_sale_ok, Msg_expense_ok, Msg_stock_20, Msg_summary})
        \cup ({OwnerFrom} \X {Msg_sold, Msg_expense_ok, Msg_stock_20})

ReceiveIso ==
    /\ received < MaxIsoMsgs
    /\ \E m \in IsoInbound : Accept(1, m[1], m[2])
    /\ UNCHANGED hist

IsoNext ==
    \/ ReceiveIso
    \/ SelectBiz(1)
    \/ InsertBiz(1)
    \/ Summary(1)
    \/ InsertSale(1)
    \/ InsertExpense(1)
    \/ InsertStock(1)

IsoSpec == Init /\ [][IsoNext]_vars

\* the rows of log that belong to business b
OwnRows(log, b) == SelectSeq(log, LAMBDA e : e.business_id = b)

\* the summaries business b can get when the tables hold its rows only
SummariesAlone(b, days) ==
    SummariesOver(SelectSeq(businesses, LAMBDA row : row.id = b),
                  OwnRows(sales, b), OwnRows(expenses, b), OwnRows(stock_events, b),
                  b, days, ChatTopProducts)

\* C17: the summary computed for a business depends only on that business's
\* events: it is a summary the business gets when the events of every other
\* business are taken out of the tables, and the two sets of possible
\* summaries are the same.
C17_SummaryOfOwnEventsOnly ==
    [][ChatSummarised =>
          LET b == req[1].businessId
              days == req'[1].summary.intervalSql
          IN /\ req'[1].summary \in SummariesAlone(b, days)
             /\ SummariesOver(businesses, sales, expenses, stock_events, b, days,
                              ChatTopProducts) = SummariesAlone(b, days)
             /\ req'[1].tips = computeInsightsFromSummary(
                     adaptInternalSummaryToAdminShape(req'[1].summary, Undefined))]_vars

\* a sender got a summary of its own sale while the other sender's business
\* had a sale on record too
C17_Witness ==
    /\ ChatSummaryDone
    /\ Len(req[1].summary.totals.salesTotals) = 1
    /\ \E i, j \in 1..Len(sales) :
          /\ sales[i].business_id = req[1].businessId
          /\ sales[j].business_id # req[1].businessId
          /\ sales[j].currency # sales[i].currency

-----------------------------------------------------------------------------
(* Specification of the period keyword: summaries asked by chat and by the   *)
(* admin endpoint with every spelling of the period                          *)

MaxPeriodMsgs == 2

PeriodInbound ==
    {OtherFrom} \X {Msg_sale_ok, Msg_summary, Msg_advice, Msg_summary_month,
                    Msg_summary_7d, Msg_advice_30d, Msg_summary_other}

ReceivePeriod ==
    /\ received < MaxPeriodMsgs
    /\ \E m \in PeriodInbound : Accept(1, m[1], m[2])
    /\ UNCHANGED hist

PeriodParams ==
    {Undefined, <<>>, Str_today, <<"W","E","E","K">>, Str_7d, <<"M","o","n","t","h">>,
     <<"3","0","D">>, <<"y","e","a","r">>}

PeriodAdmin == \E period \in PeriodParams : AdminSummary(TRUE, <<"1">>, period)

PeriodNext ==
    \/ ReceivePeriod
    \/ SelectBiz(1)
    \/ InsertBiz(1)
    \/ Summary(1)
    \/ InsertSale(1)
    \/ PeriodAdmin

PeriodSpec == Init /\ [][PeriodNext]_vars

\* the window, in days, that the claim gives the period keyword
WindowDays(keyword) ==
    IF keyword = Undefined \/ keyword = <<>> THEN 1
    ELSE LET k == toLowerCase(keyword)
         IN IF k = <<"t","o","d","a","y">> THEN 1
            ELSE IF k \in {<<"w","e","e","k">>, <<"7","d">>} THEN 7
            ELSE IF k \in {<<"m","o","n","t","h">>, <<"3","0","d">>} THEN 30
            ELSE 1

\* C18: the period keyword gives the window: omitted or "today" 1 day, "week"
\* or "7d" 7 days, "month" or "30d" 30 days, in any letter case, and anything
\* else 1 day; the chat summaries and the admin report map it the same way.
C18_PeriodWindow ==
    /\ ChatSummaryDone =>
          req[1].summary.intervalSql = WindowDays(At(PartsOf(req[1]), 1))
    /\ admin.status = 200 => admin.window = WindowDays(admin.period)
    /\ (/\ ChatSummaryDone
        /\ admin.status = 200
        /\ toLowerCase(PeriodOr(At(PartsOf(req[1]), 1)))
             = toLowerCase(PeriodOr(admin.period)))
          => req[1].summary.intervalSql = admin.window

\* "summary MONTH" and the admin report for period=30D both took 30 days
C18_Witness ==
    /\ ChatSummaryDone
    /\ req[1].body = Msg_summary_month
    /\ req[1].summary.intervalSql = 30
    /\ admin.status = 200
    /\ admin.period = <<"3","0","D">>
    /\ admin.window = 30

-----------------------------------------------------------------------------
(* Specification of stand-alone calls of computeInsightsFromSummary *)

SalesRow(c, total) == [currency |-> c, total_amount |-> total, total_qty |-> Scale]
ExpensesRow(c, total) == [currency |-> c, total_amount |-> total]
ProductRow(item, revenue) ==
    [item |-> item, currency |-> NGN, revenue |-> revenue, qty |-> Scale]
SnapshotRow(item, quantity) ==
    [item |-> item, quantity |-> quantity, last_updated |-> 0]

Bin == <<"b","i","n">>

SalesArrs ==
    {<<>>,
     <<SalesRow(NGN, 0)>>,
     <<SalesRow(NGN, 100 * Scale)>>,
     <<SalesRow(GBP, 10 * Scale), SalesRow(NGN, 0 - 20 * Scale)>>}

ExpArrs ==
    {<<>>,
     <<ExpensesRow(NGN, 0)>>,
     <<ExpensesRow(USD, 30 * Scale)>>,
     <<ExpensesRow(GBP, 10 * Scale), ExpensesRow(NGN, 0 - 10 * Scale)>>}

TopLists ==
    {<<>>,
     <<ProductRow(Rice, 45 * Scale)>>,
     <<ProductRow(Rice, 70 * Scale), ProductRow(Bin, 30 * Scale)>>,
     <<ProductRow(Rice, 69 * Scale), ProductRow(Bin, 31 * Scale)>>,
     <<ProductRow(Rice, 10 * Scale), ProductRow(Bin, 0 - Scale),
       ProductRow(<<"o","i","l">>, 0 - Scale)>>,
     <<ProductRow(Rice, 0), ProductRow(Bin, 0)>>}

StockSnaps ==
    {<<>>,
     <<SnapshotRow(Bin, 0)>>,
     <<SnapshotRow(Bin, 7 * Scale), SnapshotRow(Rice, 0)>>,
     <<SnapshotRow(Bin, 199 * Scale)>>,
     <<SnapshotRow(Bin, 200 * Scale), SnapshotRow(Rice, 20 * Scale)>>}

NetAmounts == {0 - 10 * Scale, 0, 10 * Scale}

\* net maps over the first currencies of GBP, NGN, USD
NetMaps ==
    LET order == <<GBP, NGN, USD>>
    IN UNION {{[i \in 1..n |-> [currency |-> order[i], net |-> f[i]]] :
                 f \in [1..n -> NetAmounts]} : n \in 0..3}

InsightInit ==
    /\ businesses = <<>>
    /\ sales = <<>>
    /\ expenses = <<>>
    /\ stock_events = <<>>
    /\ EVENTS = <<>>
    /\ req = [r \in ReqIds |-> IdleReq]
    /\ received = 0
    /\ hist = <<>>
    /\ parseIn = NoParse
    /\ parseOut = NotParsed
    /\ now = 0
    /\ admin = NoAdmin
    /\ insightIn \in {[period |-> Str_today,
                        business |-> Null,
                        totals |-> [sales_by_currency |-> sa,
                                    expenses_by_currency |-> ea,
                                    net_by_currency |-> net],
                        insights |-> [top_products_by_revenue |-> tp,
                                      stock_snapshot |-> ss]] :
                         sa \in SalesArrs, ea \in ExpArrs, net \in NetMaps,
                         tp \in TopLists, ss \in StockSnaps}
    /\ insightOut = NotComputed
    /\ normIn = NoText
    /\ normOut = NotNormalized
    /\ webhook = NoWebhook

InsightCall ==
    /\ insightOut = NotComputed
    /\ insightOut' = computeInsightsFromSummary(insightIn)
    /\ UNCHANGED <<Tables, EVENTS, req, received, hist, parseIn, parseOut, now,
                   admin, insightIn, normIn, normOut, webhook>>

InsightNext == InsightCall

InsightSpec == InsightInit /\ [][InsightNext]_vars

Computed == insightOut # NotComputed

HasTip(tips, kind) == \E i \in 1..Len(tips) : tips[i].kind = kind

\* C19: computeInsightsFromSummary never returns more than 6 tips, and for a
\* summary whose sales total zero and whose expenses total zero the result
\* holds both the no-sales tip and the no-expenses tip.
C19_AtMostSixTips ==
    Computed =>
       /\ Len(insightOut) <= 6
       /\ (/\ SumTotalAmount(insightIn.totals.sales_by_currency) = 0
           /\ SumTotalAmount(insightIn.totals.expenses_by_currency) = 0)
             => HasTip(insightOut, "no_sales") /\ HasTip(insightOut, "no_expenses")

\* a summary with no sales, no expenses and seven applicable tips got six,
\* the no-sales and the no-expenses tip among them
C19_Witness ==
    /\ Computed
    /\ insightIn.totals.sales_by_currency = <<>>
    /\ insightIn.totals.expenses_by_currency = <<>>
    /\ Len(insightIn.totals.net_by_currency) = 3
    /\ \A i \in 1..3 : insightIn.totals.net_by_currency[i].net < 0
    /\ Len(insightIn.insights.top_products_by_revenue) = 1
    /\ insightIn.insights.stock_snapshot = <<>>
    /\ Len(insightOut) = 6
    /\ insightOut[1].kind = "no_sales"
    /\ insightOut[2].kind = "no_expenses"

HasTipAbout(tips, kind, about) ==
    \E i \in 1..Len(tips) : tips[i] = Tip(kind, about)

TopProductsIn == insightIn.insights.top_products_by_revenue

\* C21 as stated: with at least 2 top products the concentration tip naming
\* the leading product is emitted iff its revenue is >= 70% of the summed
\* top-product revenue, the case where all revenues are 0 included.
C21_ConcentrationRule ==
    (Computed /\ Len(TopProductsIn) >= 2) =>
       (HasTipAbout(insightOut, "concentration", TopProductsIn[1].item)
          <=> TopProductsIn[1].revenue * 10 >= 7 * SumRevenue(TopProductsIn))

\* C21 amended: with at least 2 top products the concentration tip naming the
\* leading product is emitted iff the summed top-product revenue is positive
\* and the leading revenue is >= 70% of it (so not when all revenues are 0);
\* with exactly 1 top product the diversification tip naming it is emitted;
\* the two tips never appear together and none appears with 0 top products.
C21_ConcentrationRuleAmended ==
    Computed =>
       LET top == TopProductsIn
           sumTop == SumRevenue(top)
       IN /\ Len(top) >= 2 =>
                (HasTipAbout(insightOut, "concentration", top[1].item)
                   <=> (sumTop > 0 /\ top[1].revenue * 10 >= 7 * sumTop))
          /\ Len(top) = 1 => HasTipAbout(insightOut, "single_product", top[1].item)
          /\ ~(HasTip(insightOut, "concentration")
                 /\ HasTip(insightOut, "single_product"))
          /\ Len(top) = 0 => /\ ~HasTip(insightOut, "concentration")
                             /\ ~HasTip(insightOut, "single_product")
          /\ \A i \in 1..Len(insightOut) :
                insightOut[i].kind \in {"concentration", "single_product"}
                   => insightOut[i].about = top[1].item

\* two top products, the leading one with exactly 70% of the revenue, and the
\* concentration tip naming it
C21_Witness ==
    /\ Computed
    /\ Len(TopProductsIn) = 2
    /\ TopProductsIn[1].revenue = 70 * Scale
    /\ SumRevenue(TopProductsIn) = 100 * Scale
    /\ HasTipAbout(insightOut, "concentration", Rice)

StockSnapIn == insightIn.insights.stock_snapshot

\* C22: for the first item of the stock snapshot, quantity 0 gives the
\* stockout tip, quantity >= 200 the high-stock tip, a quantity strictly
\* between gives neither, the two are never both emitted; the record-stock
\* tip is emitted iff the stock snapshot is empty.
C22_StockRule ==
    Computed =>
       LET snap == StockSnapIn
       IN /\ Len(snap) > 0 =>
                /\ HasTipAbout(insightOut, "stockout", snap[1].item)
                      <=> snap[1].quantity = 0
                /\ HasTipAbout(insightOut, "high_stock", snap[1].item)
                      <=> snap[1].quantity >= 200 * Scale
                /\ \A i \in 1..Len(insightOut) :
                      insightOut[i].kind \in {"stockout", "high_stock"}
                         => insightOut[i].about = snap[1].item
          /\ ~(HasTip(insightOut, "stockout") /\ HasTip(insightOut, "high_stock"))
          /\ HasTip(insightOut, "no_stock") <=> snap = <<>>

\* a snapshot whose first item holds exactly 200 and so got the high-stock
\* tip, while a later item is not looked at
C22_Witness ==
    /\ Computed
    /\ Len(StockSnapIn) = 2
    /\ StockSnapIn[1].quantity = 200 * Scale
    /\ HasTipAbout(insightOut, "high_stock", Bin)
    /\ ~HasTip(insightOut, "stockout")

-----------------------------------------------------------------------------
(* Specification of the tips of reachable summaries: sales and expenses of   *)
(* one sender in three currencies, then a summary                            *)

MaxTipMsgs == 5

TipInbound ==
    {OtherFrom} \X {Msg_sale_loss, Msg_expense_negative, Msg_expense_gbp1,
                    Msg_expense_usd1, Msg_summary}

ReceiveTip ==
    /\ received < MaxTipMsgs
    /\ \E m \in TipInbound : Accept(1, m[1], m[2])
    /\ UNCHANGED hist

TipNext ==
    \/ ReceiveTip
    \/ SelectBiz(1)
    \/ InsertBiz(1)
    \/ Summary(1)
    \/ InsertSale(1)
    \/ InsertExpense(1)

TipSpec == Init /\ [][TipNext]_vars

\* C20: in every summary reached by dispatching messages, each currency whose
\* net is negative has its negative-net tip in the tip list: no such tip is
\* lost, whatever other rules fire.
C20_NegativeNetTipKept ==
    ChatSummaryDone =>
       \A i \in 1..Len(req[1].summary.totals.netByCurrency) :
          LET entry == req[1].summary.totals.netByCurrency[i]
          IN entry.net < 0 =>
                \E k \in 1..Len(req[1].tips) :
                   /\ req[1].tips[k].kind = "negative_net"
                   /\ req[1].tips[k].about = entry.currency

-----------------------------------------------------------------------------
(* Specification of stand-alone calls of normalizeIncomingNL followed by the *)
(* handler's tokenization and item clean-up.  Each text is kept with the     *)
(* pieces it was put together from.                                          *)

\* normalized.replace(/\s+/g, " ")
RECURSIVE CollapseSpaces(_)
CollapseSpaces(s) ==
    IF Len(s) < 2 THEN s
    ELSE IF s[1] = " " /\ s[2] = " " THEN CollapseSpaces(Tail(s))
    ELSE <<s[1]>> \o CollapseSpaces(Tail(s))

\* incoming.split(c)
RECURSIVE SplitOn(_, _)
SplitOn(s, c) ==
    IF s = <<>> THEN <<<<>>>>
    ELSE LET rest == SplitOn(Tail(s), c)
         IN IF Head(s) = c THEN <<<<>>>> \o rest
            ELSE <<<<Head(s)>> \o rest[1]>> \o Tail(rest)

\* the tokens the handler sees for a normalized text
Tokens(normalized) == SplitOn(CollapseSpaces(normalized), " ")

Capital(w) == <<UpperChar(w[1])>> \o Tail(w)

Casings(w) == {w, Capital(w), toUpperCase(w)}

Red == <<"r","e","d">>
Bag == <<"b","a","g">>
Fuel == <<"f","u","e","l">>
Shop == <<"s","h","o","p">>
Rent == <<"r","e","n","t">>

\* a phrase, the token it is to become and the text it is to be stored as
Phrase(words, token, stored) == [words |-> words, token |-> token, stored |-> stored]

ItemPhrases ==
    {Phrase(<<Rice>>, Rice, Rice),
     Phrase(<<Red, Rice>>, <<"r","e","d","_","r","i","c","e">>,
            <<"r","e","d"," ","r","i","c","e">>),
     Phrase(<<Capital(Red), Rice, toUpperCase(Bag)>>,
            <<"R","e","d","_","r","i","c","e","_","B","A","G">>,
            <<"r","e","d"," ","r","i","c","e"," ","b","a","g">>)}

CategoryPhrases ==
    {Phrase(<<Fuel>>, Fuel, Fuel),
     Phrase(<<Capital(Shop), Rent>>, <<"S","h","o","p","_","r","e","n","t">>,
            <<"s","h","o","p"," ","r","e","n","t">>)}

QtyWords == {<<"3">>, <<"1","2">>}
AmountWords == {<<"4","5">>, <<"£","4","5">>}
CurrencyWords == {<<>>, <<<<"g","b","p">>>>}

Text(form, words, phrase, qty, amount, currency) ==
    [form |-> form, words |-> words, phrase |-> phrase, qty |-> qty,
     amount |-> amount, currency |-> currency]

NoPhrase == Phrase(<<>>, <<>>, <<>>)

SoldTexts ==
    {Text("sold", <<k, q>> \o p.words \o <<f, a>> \o c, p, q, a, c) :
        k \in Casings(Str_sold), q \in QtyWords, p \in ItemPhrases,
        f \in {Str_for, toUpperCase(Str_for)}, a \in AmountWords,
        c \in CurrencyWords}

SpentTexts ==
    {Text("spent", <<k, a>> \o c \o <<o>> \o p.words, p, <<>>, a, c) :
        k \in Casings(Str_spent), a \in AmountWords, c \in CurrencyWords,
        o \in {Str_on, Capital(Str_on)}, p \in CategoryPhrases}

AddTexts ==
    {Text("add", <<k, s>> \o p.words \o <<q>>, p, q, <<>>, <<>>) :
        k \in Casings(Str_add), s \in {Str_stock, toUpperCase(Str_stock)},
        p \in ItemPhrases, q \in QtyWords}

RemoveTexts ==
    {Text("remove", <<k, s>> \o p.words \o <<q>>, p, q, <<>>, <<>>) :
        k \in Casings(Str_remove), s \in {Str_stock, toUpperCase(Str_stock)},
        p \in ItemPhrases, q \in QtyWords}

\* texts starting with summary or advice, and the text help
PassTexts ==
    {Text("pass", w, NoPhrase, <<>>, <<>>, <<>>) :
        w \in {<<Str_summary>>, <<Capital(Str_summary), Str_week>>,
               <<Str_summary \o <<"!">>, Str_sold, <<"3">>, Rice, Str_for, <<"4","5">>>>,
               <<toUpperCase(Str_advice), Capital(Str_month)>>,
               <<Str_advice, Str_add, Str_stock, Rice, <<"3">>>>}}
      \cup {Text("help", <<w>>, NoPhrase, <<>>, <<>>, <<>>) : w \in Casings(Str_help)}

\* texts no rule rewrites
OtherWordLists ==
    {<<Str_sale, Rice, <<"3">>, <<"4","5">>>>,
     <<Str_stock, Capital(Rice), <<"2","0">>>>,
     <<Str_help, <<"m","e">>>>,
     <<Str_sold, <<"t","w","o">>, Rice, Str_for, <<"4","5">>>>,
     <<Str_sold, <<"3">>, Str_for, <<"4","5">>>>,
     <<Str_sold, <<"3">>, Rice, <<"4","5">>>>,
     <<Str_sold, <<"3">>, Rice, Str_for>>,
     <<Str_spent, <<"4","5">>, Fuel>>,
     <<Str_spent, Str_on, Fuel>>,
     <<Str_add, Str_stock, Rice>>,
     <<Str_add, Str_stock, Rice, <<"t","e","n">>>>,
     <<Str_add, Rice, <<"3">>>>,
     <<Str_remove, Str_stock, <<"3">>>>,
     <<Str_remove, Str_stock, Rice, <<"-","3">>>>,
     <<Capital(Str_stock), Str_add, Rice, <<"3">>>>}

OtherTextsNL ==
    {Text("other", w, NoPhrase, <<>>, <<>>, <<>>) : w \in OtherWordLists}

NormTexts ==
    SoldTexts \cup SpentTexts \cup AddTexts \cup RemoveTexts \cup PassTexts
        \cup OtherTextsNL

NormInit ==
    /\ businesses = <<>>
    /\ sales = <<>>
    /\ expenses = <<>>
    /\ stock_events = <<>>
    /\ EVENTS = <<>>
    /\ req = [r \in ReqIds |-> IdleReq]
    /\ received = 0
    /\ hist = <<>>
    /\ parseIn = NoParse
    /\ parseOut = NotParsed
    /\ now = 0
    /\ admin = NoAdmin
    /\ insightIn = NoInsightIn
    /\ insightOut = NotComputed
    /\ normIn \in NormTexts
    /\ normOut = NotNormalized
    /\ webhook = NoWebhook

\* lines 651-653 and the item clean-up of the write branches
NormCall ==
    /\ normOut = NotNormalized
    /\ LET normalized == JoinWith(normalizeIncomingNL(normIn.words), " ")
           parts == Tokens(normalized)
       IN normOut' = [parts |-> parts, stored |-> ItemOf(parts)]
    /\ UNCHANGED <<Tables, EVENTS, req, received, hist, parseIn, parseOut, now,
                   admin, insightIn, insightOut, normIn, webhook>>

NormNext == NormCall

NormSpec == NormInit /\ [][NormNext]_vars

Normalized == normOut # NotNormalized

\* the canonical tokens each rule is to give
Canonical(t) ==
    CASE t.form = "sold" ->
            <<Str_sale, t.phrase.token, t.qty, t.amount>> \o t.currency
      [] t.form = "spent" ->
            <<Str_expense, t.phrase.token, t.amount>> \o t.currency
      [] t.form = "add" -> <<Str_stockadd, t.phrase.token, t.qty>>
      [] t.form = "remove" -> <<Str_stockremove, t.phrase.token, t.qty>>
      [] t.form = "help" -> <<Str_help>>
      [] OTHER -> t.words

-----------------------------------------------------------------------------
(* Storage failures: every awaited storage call may fail (ok = FALSE) *)

NoRepeat(calls) ==
    \A i, j \in 1..Len(calls) : calls[i] = calls[j] => i = j

InsertPcs == {"insertSale", "insertExpense", "insertStock"}

Awaiting(q) == q.pc \notin {"idle", "done"}

\* request r settles in this step with the temporary-error reply
FailsNow(r) ==
    /\ Awaiting(req[r])
    /\ req'[r].pc = "done"
    /\ req'[r].replies = <<"temp_error">>

\* C24: when a storage operation of a message fails the reply is the temporary
\* error message and nothing else, the failed operation is not invoked again,
\* no further storage operation is invoked for that message, and nothing is
\* written; no storage operation is invoked twice for one message.
C24_NoRetryAfterFailure ==
    /\ [](\A r \in ReqIds :
            /\ NoRepeat(req[r].calls)
            /\ Has(req[r].replies, {"temp_error"}) =>
                  req[r].pc = "done" /\ req[r].replies = <<"temp_error">>)
    /\ [][\A r \in ReqIds :
            /\ FailsNow(r) =>
                  /\ req'[r].calls = req[r].calls
                  /\ UNCHANGED Tables
            /\ (req[r].pc \in InsertPcs /\ req'[r] # req[r]) =>
                  \/ FailsNow(r)
                  \/ /\ Len(sales) + Len(expenses) + Len(stock_events) + 1
                          = Len(sales') + Len(expenses') + Len(stock_events')
                     /\ req'[r].pc = "done"
                     /\ req'[r].replies \in {<<"sale_recorded">>, <<"expense_recorded">>,
                                              <<"stock_set">>, <<"stock_added">>,
                                              <<"stock_removed">>}
            /\ (req[r].pc = "done" /\ req'[r] # req[r]) =>
                  /\ received' = received + 1
                  /\ Len(req'[r].calls) <= 1]_vars

\* a stockadd whose append failed after the business lookup and the read of
\* the level had succeeded: three storage calls, one reply
C24_Witness ==
    \E r \in ReqIds :
       /\ req[r].pc = "done"
       /\ req[r].replies = <<"temp_error">>
       /\ req[r].calls = <<"selectBusiness", "getLatestStockQty", "insertStockEvent">>

-----------------------------------------------------------------------------
(* Specification of the read-only and unknown commands: one sender, one     *)
(* message at a time                                                         *)

MaxCmdMsgs == 2

\* sold three rice for 45
Msg_sold_words ==
    <<Str_sold, <<"t","h","r","e","e">>, Rice, Str_for, <<"4","5">>>>

\* sales rice 3 45
Msg_sales ==
    <<Str_sale \o <<"s">>, Rice, <<"3">>, <<"4","5">>>>

\* Stock_add rice 3
Msg_stock_add ==
    <<<<"S","t","o","c","k","_","a","d","d">>, Rice, <<"3">>>>

\* summaryx week
Msg_summaryx ==
    <<Str_summary \o <<"x">>, Str_week>>

\* HELP me
Msg_help_me ==
    <<toUpperCase(Str_help), <<"m","e">>>>

CmdInbound ==
    {OtherFrom} \X {Msg_unknown, Msg_sold_words, Msg_sales, Msg_stock_add,
                    Msg_summaryx, Msg_help_me, Msg_help, Msg_summary, Msg_advice,
                    Msg_sale_ok, Msg_stock_20}

ReceiveCmd ==
    /\ received < MaxCmdMsgs
    /\ \E m \in CmdInbound : Accept(1, m[1], m[2])
    /\ UNCHANGED hist

CmdNext ==
    \/ ReceiveCmd
    \/ SelectBiz(1)
    \/ InsertBiz(1)
    \/ Summary(1)
    \/ InsertSale(1)
    \/ InsertStock(1)

CmdSpec == Init /\ [][CmdNext]_vars

CommandWords ==
    {Str_help, Str_summary, Str_advice, Str_sale, Str_expense, Str_stock,
     Str_stockadd, Str_stockremove}

FirstToken(q) == toLowerCase(PartsOf(q)[1])

ReadOnlyCmds == {"unknown", "help", "summary", "advice"}

\* C25: a dispatched message whose first token, lower-cased, is not a command
\* word is answered with the help hint alone; and no step of a message that is
\* unknown, help, summary or advice appends to the sales, expenses or stock
\* log or invokes a log operation.
C25_UnknownGetsHint ==
    /\ [](\A r \in ReqIds :
            LET q == req[r]
            IN (Dispatched(q) /\ FirstToken(q) \notin CommandWords) =>
                  /\ q.cmd = "unknown"
                  /\ q.pc = "done"
                  /\ q.replies = <<"unknown">>)
    /\ [][\A r \in ReqIds :
            (req'[r] # req[r] /\ req'[r].cmd \in ReadOnlyCmds) =>
               /\ UNCHANGED <<sales, expenses, stock_events>>
               /\ ~Has(req'[r].calls, LogOps)]_vars

\* "sales rice 3 45", sent after a recorded sale, got the help hint and the
\* sales log kept its one row
C25_Witness ==
    /\ req[1].pc = "done"
    /\ req[1].body = Msg_sales
    /\ req[1].replies = <<"unknown">>
    /\ Len(sales) = 1
    /\ stock_events = <<>>

-----------------------------------------------------------------------------
(* Specification of sales followed by summaries: one sender's sales in two   *)
(* currencies, another sender's sale, days passing                           *)

MaxVisMsgs == 3
MaxVisDay == 2

\* sale rice 3 ₦45000
Msg_sale_45000 ==
    <<Str_sale, Rice, <<"3">>, <<"₦","4","5","0","0","0">>>>

\* summary today
Msg_summary_today ==
    <<Str_summary, Str_today>>

VisInbound ==
    ({OtherFrom} \X {Msg_sale_45000, Msg_sale_ok, Msg_sold, Msg_summary_today,
                     Msg_summary})
        \cup {<<OwnerFrom, Msg_sale_ok>>}

ReceiveVis ==
    /\ received < MaxVisMsgs
    /\ \E m \in VisInbound : Accept(1, m[1], m[2])
    /\ UNCHANGED hist

VisTick ==
    /\ now + 2 <= MaxVisDay
    /\ Tick(2)

VisNext ==
    \/ ReceiveVis
    \/ SelectBiz(1)
    \/ InsertBiz(1)
    \/ Summary(1)
    \/ InsertSale(1)
    \/ VisTick

VisSpec == Init /\ [][VisNext]_vars

RECURSIVE QuantityIn(_, _)
QuantityIn(log, c) ==
    IF log = <<>> THEN 0
    ELSE (IF Head(log).currency = c THEN Head(log).quantity ELSE 0)
           + QuantityIn(Tail(log), c)

\* the sales totals and the net map hold, per currency, the sums over the
\* sales of business b of the last `days` days (no expenses recorded)
SalesVisible(summary, b, days) ==
    LET sold == Windowed(sales, b, days)
        totals == summary.totals.salesTotals
        net == summary.totals.netByCurrency
    IN /\ \A i, j \in 1..Len(totals) : totals[i].currency = totals[j].currency => i = j
       /\ {totals[i].currency : i \in 1..Len(totals)} = CurrenciesOf(sold)
       /\ \A i \in 1..Len(totals) :
             /\ totals[i].total_amount = TotalIn(sold, totals[i].currency)
             /\ totals[i].total_qty = QuantityIn(sold, totals[i].currency)
       /\ {<<net[i].currency, net[i].net>> : i \in 1..Len(net)}
             = {<<c, TotalIn(sold, c)>> : c \in CurrenciesOf(sold)}

ScenarioRow(b, day) ==
    [business_id |-> b, item |-> Rice, quantity |-> 3 * Scale,
     amount |-> 45000 * Scale, currency |-> NGN, created_at |-> day]

\* C26: a recorded sale is in the next summary of its business whose window
\* covers it: "sale rice 3 ₦45000" is recorded as rice, 3, NGN 45000, and when
\* it is the only event of the business "summary today" reports sales
\* {NGN, 45000, qty 3} and net[NGN] = 45000; in every summary each currency's
\* total and quantity are the sums over the recorded sales in the window.
C26_SaleVisibleInSummary ==
    [][/\ (Completes(1) /\ req[1].body = Msg_sale_45000
             /\ req'[1].replies = <<"sale_recorded">>)
            => sales' = Append(sales, ScenarioRow(req[1].businessId, now))
       /\ ChatSummarised =>
            LET q == req'[1]
            IN /\ SalesVisible(q.summary, q.businessId, q.summary.intervalSql)
               /\ (/\ OwnRows(sales, q.businessId) = <<ScenarioRow(q.businessId, now)>>
                   /\ q.body = Msg_summary_today)
                     => /\ q.summary.totals.salesTotals =
                              <<[currency |-> NGN, total_amount |-> 45000 * Scale,
                                 total_qty |-> 3 * Scale]>>
                        /\ q.summary.totals.netByCurrency =
                              <<[currency |-> NGN, net |-> 45000 * Scale]>>]_vars

\* the scenario: one business, its only event the sale of today, then
\* "summary today"
C26_Witness ==
    /\ ChatSummaryDone
    /\ req[1].body = Msg_summary_today
    /\ sales = <<ScenarioRow(1, now)>>
    /\ req[1].summary.totals.netByCurrency = <<[currency |-> NGN, net |-> 45000 * Scale]>>

-----------------------------------------------------------------------------
(* Events appended per message *)

SuccessKinds ==
    {"sale_recorded", "expense_recorded", "stock_set", "stock_added", "stock_removed"}

LogRows == Len(sales) + Len(expenses) + Len(stock_events)

\* C27: a message appends at most one row across the sales, expenses and
\* stock logs, and it appends one exactly in the step that answers it with a
\* success confirmation; every message gets one reply, so a usage, rejection,
\* unknown-command or temporary-error reply goes with no appended row.
C27_OneEventIffSuccess ==
    /\ [](\A r \in ReqIds :
            /\ Len(req[r].replies) <= 1
            /\ req[r].pc = "done" <=> Len(req[r].replies) = 1)
    /\ [][\A r \in ReqIds :
            req'[r] # req[r] =>
               /\ Extends(sales', sales)
               /\ Extends(expenses', expenses)
               /\ Extends(stock_events', stock_events)
               /\ LogRows' \in {LogRows, LogRows + 1}
               /\ LogRows' = LogRows + 1
                    <=> (Completes(r) /\ req'[r].replies[1] \in SuccessKinds)
               /\ Awaiting(req[r]) => Len(req[r].replies) = 0]_vars

\* an expense was confirmed and is the only row of the three logs
C27_Witness ==
    \E r \in ReqIds :
       /\ req[r].pc = "done"
       /\ req[r].replies = <<"expense_recorded">>
       /\ Len(expenses) = 1
       /\ sales = <<>>
       /\ stock_events = <<>>

-----------------------------------------------------------------------------
\* C28: two non-empty messages of one unseen sender processed concurrently
\* are both dispatched against the one business of that sender: a request
\* whose INSERT of getOrCreateBusinessId finds the sender already registered
\* by the other request is dispatched against that business and is not
\* answered with the temporary error.
C28_ConcurrentFirstMessages ==
    [][\A r \in ReqIds :
         (/\ req[r].pc = "insertBiz"
          /\ req'[r] # req[r]
          /\ ~UniqueFromOk(req[r].from))
            => /\ Dispatched(req'[r])
               /\ req'[r].businessId \in BusinessIdsOf(req[r].from)
               /\ req'[r].replies # <<"temp_error">>]_vars

-----------------------------------------------------------------------------
(* Specification of item names: one sender naming two items in several       *)
(* spellings, one message at a time                                          *)

MaxItemMsgs == 3

RedRice == <<"r","e","d"," ","r","i","c","e">>

\* stock Rice 20
Msg_stock_Rice ==
    <<Str_stock, Capital(Rice), <<"2","0">>>>

\* Add stock RICE 10
Msg_add_RICE ==
    <<Capital(Str_add), Str_stock, toUpperCase(Rice), <<"1","0">>>>

\* stockremove rICE 5
Msg_stockremove_rICE ==
    <<Str_stockremove, <<"r","I","C","E">>, <<"5">>>>

\* stock Red_Rice 20
Msg_stock_Red_Rice ==
    <<Str_stock, <<"R","e","d","_","R","i","c","e">>, <<"2","0">>>>

\* Remove stock RED rice 5
Msg_remove_RED_rice ==
    <<Capital(Str_remove), Str_stock, toUpperCase(Red), Rice, <<"5">>>>

\* Sold 3 Red RICE for 40 gbp
Msg_sold_Red_RICE ==
    <<Capital(Str_sold), <<"3">>, Capital(Red), toUpperCase(Rice), Str_for,
      <<"4","0">>, <<"g","b","p">>>>

\* expense Shop_Rent £30
Msg_expense_Shop_Rent ==
    <<Str_expense, <<"S","h","o","p","_","R","e","n","t">>, <<"£","3","0">>>>

RiceMsgs == {Msg_stock_Rice, Msg_add_RICE, Msg_stockremove_rICE}
RedRiceMsgs == {Msg_stock_Red_Rice, Msg_remove_RED_rice, Msg_sold_Red_RICE}

ItemInbound ==
    {OtherFrom} \X (RiceMsgs \cup RedRiceMsgs \cup {Msg_expense_Shop_Rent})

ReceiveItem ==
    /\ received < MaxItemMsgs
    /\ \E m \in ItemInbound : Accept(1, m[1], m[2])
    /\ UNCHANGED hist

ItemNext ==
    \/ ReceiveItem
    \/ SelectBiz(1)
    \/ InsertBiz(1)
    \/ InsertSale(1)
    \/ InsertExpense(1)
    \/ ReadStock(1)
    \/ InsertStock(1)

ItemSpec == Init /\ [][ItemNext]_vars

\* lowercase, no underscore
PlainName(s) ==
    \A i \in 1..Len(s) : s[i] # "_" /\ IndexIn(s[i], UpperLetters) = 0

\* the item the sender of the text means
ItemMeant(body) ==
    CASE body \in RiceMsgs -> Rice
      [] body \in RedRiceMsgs -> RedRice
      [] OTHER -> <<"s","h","o","p"," ","r","e","n","t">>

\* the quantity of the newest stock row stored under exactly this name
LevelOf(item) ==
    LET own == {i \in 1..Len(stock_events) : stock_events[i].item = item}
    IN IF own = {} THEN 0
       ELSE stock_events[CHOOSE i \in own : \A j \in own : j <= i].quantity

\* C29: every item and category handed to storage and every item looked up by
\* getLatestStockQty is lowercase with spaces for underscores, and it is the
\* one name the spellings of the item share, so stockadd / stockremove read
\* the level that stock or an earlier command wrote under another spelling.
C29_ItemNamesNormalised ==
    /\ [](/\ \A i \in 1..Len(sales) : PlainName(sales[i].item)
          /\ \A i \in 1..Len(expenses) : PlainName(expenses[i].category)
          /\ \A i \in 1..Len(stock_events) : PlainName(stock_events[i].item)
          /\ \A r \in ReqIds :
                req[r].pc \in InsertPcs \cup {"readStock"} =>
                   req[r].item = ItemMeant(req[r].body))
    /\ [][/\ (req[1].pc = "readStock" /\ req'[1].pc = "insertStock")
               => req'[1].current = LevelOf(ItemMeant(req[1].body))
          /\ (req[1].pc = "insertStock" /\ req'[1].replies \in {<<"stock_added">>,
                                                                <<"stock_removed">>})
               => /\ Len(stock_events') = Len(stock_events) + 1
                  /\ stock_events'[Len(stock_events')].item = ItemMeant(req[1].body)
                  /\ stock_events'[Len(stock_events')].quantity =
                        IF req[1].cmd = "stockadd" THEN req[1].current + req[1].delta
                        ELSE Max(0, req[1].current - req[1].delta)]_vars

\* "stock Rice 20" then "Add stock RICE 10": the level of rice is 30
C29_Witness ==
    /\ req[1].pc = "done"
    /\ req[1].body = Msg_add_RICE
    /\ req[1].replies = <<"stock_added">>
    /\ Len(stock_events) = 2
    /\ stock_events[1].item = Rice /\ stock_events[1].quantity = 20 * Scale
    /\ stock_events[2].item = Rice /\ stock_events[2].quantity = 30 * Scale

-----------------------------------------------------------------------------
(* Specification of GET /webhook: the environment sets VERIFY_TOKEN or       *)
(* leaves it out; a query parameter that is left out is undefined            *)

Str_subscribe == <<"s","u","b","s","c","r","i","b","e">>

Secret == <<"s","3","c","r","3","t">>
OtherSecret == <<"o","t","h","e","r">>

EnvTokens == {Undefined, Secret, OtherSecret}
HubModes == {Undefined, Str_subscribe, <<"u","n">> \o Str_subscribe}
HubTokens == {Undefined, <<>>, Secret, OtherSecret}
HubChallenges == {Undefined, <<"1","2","3","4">>, <<"x","y","z">>}

VerifyInit ==
    /\ businesses = <<>>
    /\ sales = <<>>
    /\ expenses = <<>>
    /\ stock_events = <<>>
    /\ EVENTS = <<>>
    /\ req = [r \in ReqIds |-> IdleReq]
    /\ received = 0
    /\ hist = <<>>
    /\ parseIn = NoParse
    /\ parseOut = NotParsed
    /\ now = 0
    /\ admin = NoAdmin
    /\ insightIn = NoInsightIn
    /\ insightOut = NotComputed
    /\ normIn = NoText
    /\ normOut = NotNormalized
    /\ \E env \in EnvTokens : webhook = [NoWebhook EXCEPT !.VERIFY_TOKEN = env]

\* app.get("/webhook")
Verify(mode, token, challenge) ==
    /\ webhook' =
          IF mode = Str_subscribe /\ token = webhook.VERIFY_TOKEN
          THEN [webhook EXCEPT !.mode = mode, !.token = token,
                               !.challenge = challenge, !.status = 200,
                               !.body = challenge]
          ELSE [webhook EXCEPT !.mode = mode, !.token = token,
                               !.challenge = challenge, !.status = 403,
                               !.body = Undefined]
    /\ UNCHANGED <<Tables, EVENTS, req, received, hist, parseIn, parseOut, now,
                   admin, insightIn, insightOut, normIn, normOut>>

VerifyNext ==
    \E mode \in HubModes, token \in HubTokens, challenge \in HubChallenges :
       Verify(mode, token, challenge)

VerifySpec == VerifyInit /\ [][VerifyNext]_vars

Verified == webhook.status # 0

\* C30: GET /webhook answers 200 with the challenge only when hub.mode is
\* "subscribe" and hub.verify_token equals a configured VERIFY_TOKEN; with
\* VERIFY_TOKEN not configured every request, one without a token included,
\* is answered 403.
C30_VerifyNeedsConfiguredToken ==
    Verified =>
       /\ webhook.status \in {200, 403}
       /\ webhook.status = 200 =>
             /\ webhook.mode = Str_subscribe
             /\ webhook.VERIFY_TOKEN # Undefined
             /\ webhook.token = webhook.VERIFY_TOKEN
             /\ webhook.body = webhook.challenge
       /\ webhook.VERIFY_TOKEN = Undefined => webhook.status = 403

-----------------------------------------------------------------------------
(* Specification with fairness: every awaited storage call settles *)

LiveInbound ==
    ({OtherFrom} \X {Msg_help, Msg_summary, Msg_sale_ok, Msg_sale_zero,
                     Msg_sale_fraction, Msg_expense_ok, Msg_stock_20, Msg_add_10,
                     Msg_remove_5, Msg_unknown, Msg_empty})
        \cup {<<NoFrom, Msg_help>>}

ReceiveLive(r) ==
    /\ received < MaxLiveMsgs
    /\ \E m \in LiveInbound : Accept(r, m[1], m[2])
    /\ UNCHANGED hist

LiveNext ==
    \E r \in ReqIds :
        \/ ReceiveLive(r)
        \/ SelectBiz(r)
        \/ InsertBiz(r)
        \/ Summary(r)
        \/ InsertSale(r)
        \/ InsertExpense(r)
        \/ ReadStock(r)
        \/ InsertStock(r)

LiveSpec ==
    /\ Init
    /\ [][LiveNext]_vars
    /\ \A r \in ReqIds : WF_vars(Step(r))

InFlight(q) == q.pc \notin {"idle", "done"}

-----------------------------------------------------------------------------
\* C1: every inbound message eventually gets exactly one reply, whatever its
\* text and whether or not a storage operation fails: a request never holds
\* more than one reply, holds exactly one once it is done, and every request
\* in flight is eventually done.
C1_EveryMessageAnswered ==
    /\ [](\A r \in ReqIds :
            /\ Len(req[r].replies) <= 1
            /\ InFlight(req[r]) => req[r].replies = <<>>
            /\ req[r].pc = "done" => Len(req[r].replies) = 1)
    /\ \A r \in ReqIds : InFlight(req[r]) ~> (req[r].pc = "done")

\* a message whose insert failed in storage was answered all the same
C1_Witness ==
    \E r \in ReqIds :
        /\ req[r].pc = "done"
        /\ Has(req[r].calls, WriteOps)
        /\ req[r].replies = <<"temp_error">>

====
